---- MODULE Spec2Model ----
(***************************************************************************)
(* Recurring Billing & Reminder Engine of the expense tracker bot.         *)
(*                                                                         *)
(* Dates are day ordinals counted from 2024-01-01 (ordinal 0, a Monday),   *)
(* so that timedelta arithmetic is integer arithmetic and weekday() is the *)
(* ordinal modulo 7 (Python: Monday = 0).  The wall clock is (day, hour)   *)
(* in the settings timezone; an expense's own timezone is an hour offset   *)
(* from it.                                                                *)
(***************************************************************************)
EXTENDS Integers, Sequences, FiniteSets, TLC

\* ------------------------------------------------------------------ calendar

ModelYears == 2024..2030
HoursPerDay == 24
NoDate == 0 - 1
NoWeekday == 0 - 1

IsLeap(y) == (y % 4 = 0 /\ y % 100 # 0) \/ y % 400 = 0

DaysInMonth(y, m) ==
    IF m = 2 THEN (IF IsLeap(y) THEN 29 ELSE 28)
    ELSE IF m \in {4, 6, 9, 11} THEN 30 ELSE 31

DaysInYear(y) == IF IsLeap(y) THEN 366 ELSE 365

RECURSIVE DaysBeforeYear(_)
DaysBeforeYear(y) == IF y <= 2024 THEN 0 ELSE DaysBeforeYear(y - 1) + DaysInYear(y - 1)

RECURSIVE DaysBeforeMonth(_, _)
DaysBeforeMonth(y, m) == IF m <= 1 THEN 0 ELSE DaysBeforeMonth(y, m - 1) + DaysInMonth(y, m - 1)

\* date(y, m, d) as an ordinal
MkDate(y, m, d) == DaysBeforeYear(y) + DaysBeforeMonth(y, m) + (d - 1)

MaxOrdinal == MkDate(2030, 12, 31)

\* the year an ordinal falls in, the month of that year, and its (year, month, day)
YearIn(n) ==
    CHOOSE y \in ModelYears : DaysBeforeYear(y) <= n /\ n < DaysBeforeYear(y) + DaysInYear(y)

MonthIn(n, y) ==
    CHOOSE m \in 1..12 : MkDate(y, m, 1) <= n /\ n < MkDate(y, m, 1) + DaysInMonth(y, m)

Ymd(n, y, m) == [year |-> y, month |-> m, day |-> n - MkDate(y, m, 1) + 1]

YmdInYear(n, y) == Ymd(n, y, MonthIn(n, y))

\* the (year, month, day) of every ordinal of the modelled years
DateTable == [n \in 0..MaxOrdinal |-> YmdInYear(n, YearIn(n))]

YearOf(n) == DateTable[n].year
MonthOf(n) == DateTable[n].month
DayOf(n) == DateTable[n].day
Weekday(n) == n % 7

\* ------------------------------------------------- recurring_flow.py calendar

Min(a, b) == IF a < b THEN a ELSE b

_month_range(year, month) ==
    (IF month = 12 THEN MkDate(year + 1, 1, 1) ELSE MkDate(year, month + 1, 1))
        - MkDate(year, month, 1)

\* a day taken as it is, whatever the length of the month
UnclampedDay(year, month, day) == day

_clamp_day(year, month, day) == Min(day, _month_range(year, month))

\* date(year, month, _clamp_day(year, month, day))
ClampedDate(year, month, day) == MkDate(year, month, _clamp_day(year, month, day))

\* month is source.month - 1 + months
AddMonthsFrom(ymd, month) == ClampedDate(ymd.year + (month \div 12), (month % 12) + 1, ymd.day)

_add_months(source, months) == AddMonthsFrom(DateTable[source], MonthOf(source) - 1 + months)

SetMin(S) == CHOOSE x \in S : \A y \in S : x <= y

Recurrences == {"weekly", "biweekly", "monthly", "quarterly", "yearly"}

\* billing_day / billing_month: 0 stands for None (Python's `x or fallback`
\* treats both alike); billing_weekday: NoWeekday stands for None;
\* anchor_date: NoDate stands for None.

\* a weekly candidate left as it is
WeeklyOnly(recurrence, candidate, delta_days) == candidate

\* the biweekly correction of a weekly candidate
Biweekly(recurrence, candidate, delta_days) ==
    IF recurrence = "biweekly" /\ delta_days % 14 # 0
    THEN candidate + (14 - (delta_days % 14))
    ELSE candidate

WeeklyCandidate(recurrence, today, weekday, anchor) ==
    Biweekly(recurrence, today + ((weekday - Weekday(today)) % 7),
             today + ((weekday - Weekday(today)) % 7) - anchor)

NextDueWeekly(recurrence, today, billing_weekday, anchor_date) ==
    WeeklyCandidate(recurrence, today,
                    IF billing_weekday # NoWeekday THEN billing_weekday
                    ELSE IF anchor_date # NoDate THEN Weekday(anchor_date)
                    ELSE Weekday(today),
                    IF anchor_date = NoDate THEN today ELSE anchor_date)

\* billing_day or (anchor_date.day if anchor_date else today.day)
DayOr(billing_day, anchor, today) ==
    IF billing_day # 0 THEN billing_day
    ELSE IF anchor.year # 0 THEN anchor.day ELSE today.day

\* billing_month or (anchor_date.month if anchor_date else today.month)
MonthOr(billing_month, anchor, today) ==
    IF billing_month # 0 THEN billing_month
    ELSE IF anchor.year # 0 THEN anchor.month ELSE today.month

MonthlyFrom(today, candidate) ==
    IF candidate < today THEN _add_months(candidate, 1) ELSE candidate

NextDueMonthlyAt(today, ymd, day) ==
    MonthlyFrom(today, ClampedDate(ymd.year, ymd.month, day))

\* candidates of the quarterly branch: one date per month option
QuarterlyCandidates(ymd, day, base_month) ==
    {ClampedDate(IF ((base_month - 1 + 3 * i) % 12) + 1 < base_month /\ ymd.month >= base_month
                 THEN ymd.year + 1 ELSE ymd.year,
                 ((base_month - 1 + 3 * i) % 12) + 1, day) : i \in 0..3}

\* the first candidate, in date order, that is not before today; else the first
FirstFrom(today, candidates) ==
    IF \E c \in candidates : c >= today
    THEN SetMin({c \in candidates : c >= today})
    ELSE SetMin(candidates)

YearlyFrom(today, ymd, month, day, candidate) ==
    IF candidate < today THEN ClampedDate(ymd.year + 1, month, day) ELSE candidate

NextDueYearlyAt(today, ymd, month, day) ==
    YearlyFrom(today, ymd, month, day, ClampedDate(ymd.year, month, day))

\* the branches of compute_next_due on the parts of today and of anchor_date
NextDueAt(recurrence, today, ymd, billing_day, billing_weekday, billing_month, anchor_date, anchor) ==
    IF recurrence \in {"weekly", "biweekly"}
    THEN NextDueWeekly(recurrence, today, billing_weekday, anchor_date)
    ELSE IF recurrence = "monthly"
    THEN NextDueMonthlyAt(today, ymd, DayOr(billing_day, anchor, ymd))
    ELSE IF recurrence = "quarterly"
    THEN FirstFrom(today, QuarterlyCandidates(ymd, DayOr(billing_day, anchor, ymd),
                                              MonthOr(billing_month, anchor, ymd)))
    ELSE IF recurrence = "yearly"
    THEN NextDueYearlyAt(today, ymd, MonthOr(billing_month, anchor, ymd),
                         DayOr(billing_day, anchor, ymd))
    ELSE today

compute_next_due(recurrence, today, billing_day, billing_weekday, billing_month, anchor_date) ==
    NextDueAt(IF recurrence = "" THEN "monthly" ELSE recurrence, today, DateTable[today],
              billing_day, billing_weekday, billing_month, anchor_date,
              IF anchor_date = NoDate THEN [year |-> 0, month |-> 0, day |-> 0]
              ELSE DateTable[anchor_date])

\* ----------------------------------------------------------------- the state

VARIABLES
    day,                      \* today in the settings timezone (get_today)
    hour,                     \* current hour in the settings timezone
    recurring_expenses,       \* table recurring_expenses, row id = index
    bill_instances,           \* table bill_instances, row id = index
    bill_instance_reminders,  \* table bill_instance_reminders, row id = index
    transactions,             \* the ledger (append_transaction), in append order
    next_tx,                  \* number of tx ids generated so far (generate_tx_id)
    user_identities,          \* user -> channels on which the user has a chat id
    tick,                     \* the running process_recurring_reminders call
    tick2,                    \* a second process_recurring_reminders call under way
    handlers,                 \* _handle_recurring_action calls in progress
    ticked,                   \* the scheduler has run its job for the current hour
    crashes,                  \* number of ticks the process died in
    dispatches,               \* history: every prompt handed to the Notifier
    startDay,                 \* history: the day the run started
    faults,                   \* store calls that raise: <<recurring id, call>>
    pending_actions,          \* table bot_pending_actions: user -> the pending dialogs
    messages                  \* history: number of messages the bot has handled

vars == <<day, hour, recurring_expenses, bill_instances,
          bill_instance_reminders, transactions, next_tx, user_identities,
          tick, handlers, ticked, crashes, dispatches, startDay, faults, pending_actions, messages, tick2>>

store == <<recurring_expenses, bill_instances, bill_instance_reminders, transactions>>

\* ------------------------------------------------------------------- bounds

MaxAdvances == 3        \* times the clock moves on to the next sampled hour
MaxTx == 2              \* tx ids generated (generate_tx_id calls)
RunFuel == 40           \* micro-steps a tick may take between two Notifier calls
CrashFuel == 12         \* micro-steps after which a crashing tick may die
MaxCrashes == 1         \* ticks the process dies in

Users == {"u1", "u2"}
Channels == {"telegram", "evolution"}
DefaultReminderHour == 9
FollowUpOffset == 0 - 1
NoId == 0

\* -------------------------------------------------- the store (postgres.py)

SeqIds(rows) == 1..Len(rows)

\* a plain insert, without the on-conflict clause
insert_bill_instance(rows, recurring_id, period_year, period_month, due_date, amount, payment_link, reference_number) ==
    [rows |-> Append(rows, [recurring_id |-> recurring_id, period_year |-> period_year,
                            period_month |-> period_month, due_date |-> due_date,
                            status |-> "pending", amount |-> amount,
                            payment_link |-> payment_link,
                            reference_number |-> reference_number,
                            paid_at |-> NoDate, tx_id |-> NoId, follow_up_on |-> NoDate]),
     id |-> Len(rows) + 1]

\* an upsert whose on-conflict clause replaces the whole row
replace_bill_instance(rows, recurring_id, period_year, period_month, due_date, amount, payment_link, reference_number) ==
    IF \E i \in SeqIds(rows) : /\ rows[i].recurring_id = recurring_id
                               /\ rows[i].period_year = period_year
                               /\ rows[i].period_month = period_month
    THEN [rows |-> [i \in SeqIds(rows) |->
                       IF /\ rows[i].recurring_id = recurring_id
                          /\ rows[i].period_year = period_year
                          /\ rows[i].period_month = period_month
                       THEN [rows[i] EXCEPT !.due_date = due_date, !.amount = amount,
                                            !.payment_link = payment_link,
                                            !.reference_number = reference_number,
                                            !.status = "pending", !.paid_at = NoDate,
                                            !.tx_id = NoId, !.follow_up_on = NoDate]
                       ELSE rows[i]],
          id |-> SetMin({i \in SeqIds(rows) : /\ rows[i].recurring_id = recurring_id
                                              /\ rows[i].period_year = period_year
                                              /\ rows[i].period_month = period_month})]
    ELSE insert_bill_instance(rows, recurring_id, period_year, period_month, due_date,
                              amount, payment_link, reference_number)

\* insert ... on conflict (recurring_id, period_year, period_month) do update
\* set due_date, amount, payment_link, reference_number ... returning *
upsert_bill_instance(rows, recurring_id, period_year, period_month, due_date, amount, payment_link, reference_number) ==
    LET hit == {i \in SeqIds(rows) : /\ rows[i].recurring_id = recurring_id
                                     /\ rows[i].period_year = period_year
                                     /\ rows[i].period_month = period_month}
    IN IF hit # {}
       THEN LET i == SetMin(hit)
            IN [rows |-> [rows EXCEPT ![i].due_date = due_date,
                                      ![i].amount = amount,
                                      ![i].payment_link = payment_link,
                                      ![i].reference_number = reference_number],
                id |-> i]
       ELSE [rows |-> Append(rows, [recurring_id |-> recurring_id,
                                    period_year |-> period_year,
                                    period_month |-> period_month,
                                    due_date |-> due_date,
                                    status |-> "pending",
                                    amount |-> amount,
                                    payment_link |-> payment_link,
                                    reference_number |-> reference_number,
                                    paid_at |-> NoDate,
                                    tx_id |-> NoId,
                                    follow_up_on |-> NoDate]),
             id |-> Len(rows) + 1]

\* a sweep without the status test: every instance past its due date becomes overdue
mark_overdue_any_status(rows, today) ==
    [i \in SeqIds(rows) |->
        IF rows[i].due_date < today THEN [rows[i] EXCEPT !.status = "overdue"] ELSE rows[i]]

\* update bill_instances set status = 'overdue' where status = 'pending' and due_date < :today
mark_overdue_bill_instances(rows, today) ==
    [i \in SeqIds(rows) |->
        IF rows[i].status = "pending" /\ rows[i].due_date < today
        THEN [rows[i] EXCEPT !.status = "overdue"]
        ELSE rows[i]]

\* select b.*, r.user_id, ... where b.status = 'pending' and b.follow_up_on = :today
\* and r.status = 'active'; the row carries neither r.timezone nor r.reminder_hour
list_due_follow_up_bill_instances(bills, recurrings, today) ==
    LET Due(i) == /\ bills[i].status = "pending"
                  /\ bills[i].follow_up_on = today
                  /\ recurrings[bills[i].recurring_id].status = "active"
        Row(i) == [id |-> i, user_id |-> recurrings[bills[i].recurring_id].user_id]
        ids == SelectSeq([i \in 1..Len(bills) |-> i], Due)
    IN [k \in 1..Len(ids) |-> Row(ids[k])]

\* select * from recurring_expenses where status = 'active': a snapshot of the rows
list_active_recurring_expenses(recurrings) ==
    LET Active(i) == recurrings[i].status = "active"
        ids == SelectSeq([i \in 1..Len(recurrings) |-> i], Active)
    IN [k \in 1..Len(ids) |-> [id |-> ids[k], row |-> recurrings[ids[k]]]]

\* a plain insert, without the on-conflict clause
insert_bill_reminder(rows, bill_instance_id, reminder_offset, scheduled_for) ==
    [rows |-> Append(rows, [bill_instance_id |-> bill_instance_id,
                            reminder_offset |-> reminder_offset,
                            scheduled_for |-> scheduled_for,
                            status |-> "pending"]),
     id |-> Len(rows) + 1]

\* an insert that answers a conflict with the id of the row that is there
create_or_get_bill_reminder(rows, bill_instance_id, reminder_offset, scheduled_for) ==
    LET hit == {i \in SeqIds(rows) : /\ rows[i].bill_instance_id = bill_instance_id
                                     /\ rows[i].reminder_offset = reminder_offset
                                     /\ rows[i].scheduled_for = scheduled_for}
    IN IF hit # {} THEN [rows |-> rows, id |-> SetMin(hit)]
       ELSE insert_bill_reminder(rows, bill_instance_id, reminder_offset, scheduled_for)

\* insert ... on conflict (bill_instance_id, reminder_offset, scheduled_for) do nothing
\* returning id; id NoId stands for None
create_bill_reminder_if_missing(rows, bill_instance_id, reminder_offset, scheduled_for) ==
    IF \E i \in SeqIds(rows) : /\ rows[i].bill_instance_id = bill_instance_id
                               /\ rows[i].reminder_offset = reminder_offset
                               /\ rows[i].scheduled_for = scheduled_for
    THEN [rows |-> rows, id |-> NoId]
    ELSE [rows |-> Append(rows, [bill_instance_id |-> bill_instance_id,
                                 reminder_offset |-> reminder_offset,
                                 scheduled_for |-> scheduled_for,
                                 status |-> "pending"]),
          id |-> Len(rows) + 1]

\* update_bill_reminder(id, {"status": "sent", "sent_at": now})
update_bill_reminder_sent(rows, reminder_id) ==
    IF reminder_id \in SeqIds(rows) THEN [rows EXCEPT ![reminder_id].status = "sent"] ELSE rows

\* ------------------------------------------------ clocks (recurring_scheduler.py)

\* hours since the epoch on the expense's own clock; tz is its offset in hours
LocalStamp(tz) == day * HoursPerDay + hour + tz
_today_for_timezone(tz) == LocalStamp(tz) \div HoursPerDay
_hour_for_timezone(tz) == LocalStamp(tz) % HoursPerDay

_parse_reminder_hour(value, default) ==
    IF 0 <= value /\ value <= HoursPerDay - 1 THEN value ELSE default

SeqContains(s, x) == \E k \in 1..Len(s) : s[k] = x

\* int(text) on the texts a callback or a stored value may carry in the place of
\* a number: the value, or ValueError for a text that is no integer literal
Numerals == ("1" :> 1) @@ ("2" :> 2) @@ ("3" :> 3) @@ ("-1" :> 0 - 1) @@ (" 2 " :> 2)

\* str.isdigit() on the same texts
IsDigitText(text) == text \in {"1", "2", "3"}

\* The column remind_offsets is jsonb; the driver hands its value to Python as a
\* list, a str, a dict or None. A value: its kind, the items of a list, the text
\* of a str. An item of a list: an int n, a str text, or null.
JInt(n) == [kind |-> "int", n |-> n, text |-> ""]
JStr(text) == [kind |-> "str", n |-> 0, text |-> text]
JNull == [kind |-> "null", n |-> 0, text |-> ""]
JList(items) == [kind |-> "list", items |-> items, text |-> ""]
JText(text) == [kind |-> "str", items |-> <<>>, text |-> text]
JDict == [kind |-> "dict", items |-> <<>>, text |-> ""]
JNone == [kind |-> "null", items |-> <<>>, text |-> ""]

\* json.dumps of a list of ints, cast to jsonb and read back
json_list(ints) == JList([k \in 1..Len(ints) |-> JInt(ints[k])])

\* the ints of a stored list of ints
json_ints(value) == [k \in 1..Len(value.items) |-> value.items[k].n]

\* json.loads on the texts a str value may hold; a text that is not here is no JSON
json_loads ==
    ("[3, 1]" :> json_list(<<3, 1>>))
    @@ ("[\"2\", -1, 3]" :> JList(<<JStr("2"), JInt(0 - 1), JInt(3)>>))
    @@ ("{\"days\": 3}" :> JDict)

\* int(item) succeeds: an int, or a str holding an integer literal
IntOk(item) == item.kind = "int" \/ (item.kind = "str" /\ item.text \in DOMAIN Numerals)

IntOf(item) == IF item.kind = "int" THEN item.n ELSE Numerals[item.text]

\* str(item).isdigit()
IsDigit(item) ==
    \/ item.kind = "int" /\ item.n >= 0
    \/ item.kind = "str" /\ IsDigitText(item.text)

\* lines 139-146: the items int() accepts, in order
RECURSIVE ListInts(_)
ListInts(items) ==
    IF items = <<>> THEN <<>>
    ELSE IF IntOk(Head(items)) THEN <<IntOf(Head(items))>> \o ListInts(Tail(items))
    ELSE ListInts(Tail(items))

\* line 151: [int(item) for item in data if str(item).isdigit()]
RECURSIVE DigitInts(_)
DigitInts(items) ==
    IF items = <<>> THEN <<>>
    ELSE IF IsDigit(Head(items)) THEN <<IntOf(Head(items))>> \o DigitInts(Tail(items))
    ELSE DigitInts(Tail(items))

\* lines 137-154
ExtractOffsets(value) ==
    IF value.kind = "list" THEN ListInts(value.items)
    ELSE IF value.kind = "str" /\ value.text \in DOMAIN json_loads
    THEN IF json_loads[value.text].kind = "list" THEN DigitInts(json_loads[value.text].items)
         ELSE <<>>
    ELSE <<>>

\* the scheduler without the same-day reminder of lines 352-353
OffsetsAsStored(row) == ExtractOffsets(row.remind_offsets)

\* offsets = _extract_offsets(recurring); if 0 not in offsets: offsets.append(0)
_extract_offsets(row) == ExtractOffsets(row.remind_offsets)
OffsetsWithZero(row) ==
    LET offsets == _extract_offsets(row)
    IN IF SeqContains(offsets, 0) THEN offsets ELSE Append(offsets, 0)

\* ------------------------------- process_recurring_reminders, one step at a time

IdleTick ==
    [pc |-> "idle", today |-> NoDate, follow_ups |-> <<>>, recurring_expenses |-> <<>>,
     next_due |-> NoDate, bill_instance |-> NoId, offsets |-> <<>>,
     reminder_id |-> NoId, delivered |-> FALSE, raised |-> FALSE]

\* The tick with the three tables it writes: t the call's locals, r, b, m the
\* tables recurring_expenses, bill_instances and bill_instance_reminders.
Sys(t, r, b, m) == [t |-> t, r |-> r, b |-> b, m |-> m]

\* the tick waits for the Notifier (an await), or has returned
Stops(s) == s.t.pc \in {"idle", "follow_up_send", "reminder_send"}

\* lines 248-250 and 316 are in no try block: an exception of one of these store
\* calls leaves process_recurring_reminders, and the run is over
Propagated(s) == [s EXCEPT !.t = [IdleTick EXCEPT !.raised = TRUE]]

\* a tick whose sweep has not run when the follow-ups are listed
SweepSkipped(s) == [s EXCEPT !.t.pc = "list_follow_ups"]

\* lines 248-249: today = get_today(settings); repo.mark_overdue_bill_instances(today)
StepSweep(s) ==
    IF <<NoId, "mark_overdue">> \in faults THEN Propagated(s)
    ELSE [s EXCEPT !.b = mark_overdue_bill_instances(s.b, s.t.today),
                   !.t.pc = "list_follow_ups"]

\* line 250
StepListFollowUps(s) ==
    IF <<NoId, "list_follow_ups">> \in faults THEN Propagated(s)
    ELSE [s EXCEPT !.t.follow_ups = list_due_follow_up_bill_instances(s.b, s.r, s.t.today),
                   !.t.pc = "follow_up"]

\* lines 251-262: the joined row has no timezone and no reminder_hour column, so
\* the hour test reads the settings timezone and the default hour
StepFollowUp(s) ==
    IF s.t.follow_ups = <<>> THEN [s EXCEPT !.t.pc = "list_active"]
    ELSE LET bill == Head(s.t.follow_ups)
             c == create_bill_reminder_if_missing(s.m, bill.id, FollowUpOffset, s.t.today)
         IN IF _hour_for_timezone(0) # _parse_reminder_hour(NoDate, DefaultReminderHour)
            THEN [s EXCEPT !.t.follow_ups = Tail(@)]
            ELSE IF c.id = NoId
            THEN [s EXCEPT !.t.follow_ups = Tail(@)]
            ELSE [s EXCEPT !.m = c.rows, !.t.reminder_id = c.id, !.t.pc = "follow_up_send"]

\* lines 307-308
StepFollowUpClear(s) ==
    IF s.t.delivered
    THEN [s EXCEPT !.b[Head(s.t.follow_ups).id].follow_up_on = NoDate,
                   !.t.pc = "follow_up_sent"]
    ELSE [s EXCEPT !.t.follow_ups = Tail(@), !.t.reminder_id = NoId, !.t.pc = "follow_up"]

\* lines 309-312
StepFollowUpSent(s) ==
    [s EXCEPT !.m = update_bill_reminder_sent(s.m, s.t.reminder_id),
              !.t.follow_ups = Tail(@), !.t.reminder_id = NoId,
              !.t.delivered = FALSE, !.t.pc = "follow_up"]

\* line 316
StepListActive(s) ==
    IF <<NoId, "list_active">> \in faults THEN Propagated(s)
    ELSE [s EXCEPT !.t.recurring_expenses = list_active_recurring_expenses(s.r),
                   !.t.pc = "recurring"]

\* lines 317-339: the hour test and the lazy refresh of next_due, on the snapshot row
Refresh(s, id, next_due) ==
    [s EXCEPT !.r[id].next_due = next_due, !.t.next_due = next_due, !.t.pc = "upsert"]

StepRecurringRow(s, id, row, local_today) ==
    IF _hour_for_timezone(row.tz) # _parse_reminder_hour(row.reminder_hour, DefaultReminderHour)
    THEN [s EXCEPT !.t.recurring_expenses = Tail(@)]
    ELSE IF row.next_due = NoDate \/ row.next_due < local_today
    THEN Refresh(s, id, compute_next_due(row.recurrence, local_today, row.billing_day,
                                         row.billing_weekday, row.billing_month,
                                         row.anchor_date))
    ELSE [s EXCEPT !.t.next_due = row.next_due, !.t.pc = "upsert"]

StepRecurring(s) ==
    IF s.t.recurring_expenses = <<>> THEN [s EXCEPT !.t = IdleTick]
    ELSE StepRecurringRow(s, Head(s.t.recurring_expenses).id, Head(s.t.recurring_expenses).row,
                          _today_for_timezone(Head(s.t.recurring_expenses).row.tz))

\* a tick whose handler of the exception is around the loop: the run ends
RaisedAborts(s) == [s EXCEPT !.t = IdleTick]

\* lines 318 and 408-409: an exception raised while one expense is processed is
\* caught inside the loop and logged; the loop goes on with the next expense
Raised(s) ==
    [s EXCEPT !.t.recurring_expenses = Tail(@), !.t.next_due = NoDate,
              !.t.bill_instance = NoId, !.t.offsets = <<>>, !.t.reminder_id = NoId,
              !.t.delivered = FALSE, !.t.pc = "recurring"]

\* lines 341-353
Upserted(s, row, u) ==
    [s EXCEPT !.b = u.rows, !.t.bill_instance = u.id,
              !.t.offsets = OffsetsWithZero(row), !.t.pc = "offset"]

StepUpsertRow(s, id, row, period) ==
    Upserted(s, row, upsert_bill_instance(s.b, id, period.year, period.month, s.t.next_due,
                                          row.amount, row.payment_link, row.payment_reference))

StepUpsert(s) ==
    IF <<Head(s.t.recurring_expenses).id, "upsert">> \in faults THEN Raised(s)
    ELSE StepUpsertRow(s, Head(s.t.recurring_expenses).id, Head(s.t.recurring_expenses).row,
                  DateTable[s.t.next_due])

\* the offset counted forward from the due date
ReminderDateAfter(next_due, offset) == next_due + offset

\* line 356
ReminderDate(next_due, offset) == next_due - offset

\* lines 355-366
StepOffset(s) ==
    IF s.t.offsets = <<>>
    THEN [s EXCEPT !.t.recurring_expenses = Tail(@), !.t.next_due = NoDate,
                   !.t.bill_instance = NoId, !.t.pc = "recurring"]
    ELSE LET row == Head(s.t.recurring_expenses).row
             local_today == _today_for_timezone(row.tz)
             offset == Head(s.t.offsets)
             reminder_date == ReminderDate(s.t.next_due, offset)
             c == create_bill_reminder_if_missing(s.m, s.t.bill_instance, offset, reminder_date)
         IN IF reminder_date # local_today
            THEN [s EXCEPT !.t.offsets = Tail(@)]
            ELSE IF <<Head(s.t.recurring_expenses).id, "create">> \in faults
            THEN Raised(s)
            ELSE IF c.id = NoId
            THEN [s EXCEPT !.t.offsets = Tail(@)]
            ELSE [s EXCEPT !.m = c.rows, !.t.reminder_id = c.id, !.t.pc = "reminder_send"]

\* lines 403-407
StepReminderSent(s) ==
    [s EXCEPT !.m = IF s.t.delivered THEN update_bill_reminder_sent(s.m, s.t.reminder_id) ELSE s.m,
              !.t.offsets = Tail(@), !.t.reminder_id = NoId,
              !.t.delivered = FALSE, !.t.pc = "offset"]

Step(s) ==
    CASE s.t.pc = "sweep" -> StepSweep(s)
      [] s.t.pc = "list_follow_ups" -> StepListFollowUps(s)
      [] s.t.pc = "follow_up" -> StepFollowUp(s)
      [] s.t.pc = "follow_up_clear" -> StepFollowUpClear(s)
      [] s.t.pc = "follow_up_sent" -> StepFollowUpSent(s)
      [] s.t.pc = "list_active" -> StepListActive(s)
      [] s.t.pc = "recurring" -> StepRecurring(s)
      [] s.t.pc = "upsert" -> StepUpsert(s)
      [] s.t.pc = "offset" -> StepOffset(s)
      [] s.t.pc = "reminder_sent" -> StepReminderSent(s)
      [] OTHER -> s

\* the tick runs, without yielding, to its next Notifier call or to its end;
\* n bounds the steps taken
RECURSIVE Run(_, _)
Run(s, n) == IF Stops(s) \/ n = 0 THEN s ELSE Run(Step(s), n - 1)

\* --------------------------- BotPipeline._handle_recurring_action (pipeline.py)

IdleHandler ==
    [pc |-> "idle", action |-> "", user |-> "", bill_instance_id |-> NoId,
     bill |-> [found |-> FALSE], tx_id |-> NoId]

\* select b.*, r.user_id, ..., r.recurrence, r.auto_add_transaction from bill_instances b
\* join recurring_expenses r on r.id = b.recurring_id where b.id = :bill_instance_id
get_bill_instance(bills, recurrings, bill_instance_id) ==
    IF bill_instance_id \in SeqIds(bills)
    THEN LET b == bills[bill_instance_id]
             r == recurrings[b.recurring_id]
         IN [found |-> TRUE, id |-> bill_instance_id, recurring_id |-> b.recurring_id,
             due_date |-> b.due_date, status |-> b.status, amount |-> b.amount,
             user_id |-> r.user_id, auto_add_transaction |-> r.auto_add_transaction]
    ELSE [found |-> FALSE]

\* A call with the tables it reads and writes: h its locals, r and b the tables
\* recurring_expenses and bill_instances, l the ledger, n the tx ids generated.
HSys(h, r, b, l, n) == [h |-> h, r |-> r, b |-> b, l |-> l, n |-> n]

\* a handler without the test of line 1765
NeverPaid(bill) == FALSE

\* line 1765: if str(bill.get("status")) == "paid": return
AlreadyPaid(bill) == bill.status = "paid"

\* a handler that ignores the flag of line 1802
AlwaysWantsTransaction(bill) == TRUE

\* line 1802: if bool(bill.get("auto_add_transaction", True))
WantsTransaction(bill) == bill.auto_add_transaction

\* a handler that takes any caller for the owner
AnyoneOwns(bill, user) == TRUE

\* line 1760: str(bill.get("user_id")) == str(user.get("userId"))
Owns(bill, user) == bill.user_id = user

\* lines 1759-1801 (paid), 1825 (later), 1833 (no): the read and the tests on it
HStepRead(s) ==
    LET bill == get_bill_instance(s.b, s.r, s.h.bill_instance_id)
    IN IF ~bill.found THEN [s EXCEPT !.h = IdleHandler]
       ELSE IF ~Owns(bill, s.h.user) THEN [s EXCEPT !.h = IdleHandler]
       ELSE IF s.h.action = "paid"
       THEN IF AlreadyPaid(bill) THEN [s EXCEPT !.h = IdleHandler]
            ELSE [s EXCEPT !.h.bill = bill, !.h.tx_id = s.n + 1, !.n = s.n + 1,
                           !.h.pc = IF WantsTransaction(bill) THEN "append" ELSE "update_bill"]
       ELSE IF s.h.action = "later" THEN [s EXCEPT !.h.pc = "later_update"]
       ELSE [s EXCEPT !.h = IdleHandler]

\* a ledger entry dated on the day of the payment instead of the due date
HStepAppendToday(s) ==
    [s EXCEPT !.l = Append(@, [txId |-> s.h.tx_id, userId |-> s.h.user,
                               amount |-> s.h.bill.amount, date |-> day,
                               bill |-> s.h.bill_instance_id]),
              !.h.pc = "update_bill"]

\* line 1803: append_transaction(tx); bill is history, the instance paid for
HStepAppend(s) ==
    [s EXCEPT !.l = Append(@, [txId |-> s.h.tx_id, userId |-> s.h.user,
                               amount |-> s.h.bill.amount, date |-> s.h.bill.due_date,
                               bill |-> s.h.bill_instance_id]),
              !.h.pc = "update_bill"]

\* line 1763: now, the instant of the call; the model keeps only the day
Now == day

\* lines 1804-1807
HStepUpdateBill(s) ==
    [s EXCEPT !.b[s.h.bill_instance_id] =
                  [@ EXCEPT !.status = "paid", !.paid_at = Now,
                            !.tx_id = s.h.tx_id, !.follow_up_on = NoDate],
              !.h.pc = "update_recurring"]

\* lines 1808-1822: next_due from the day after the bill's due date
HStepUpdateRecurring(s) ==
    LET recurring == s.r[s.h.bill.recurring_id]
        due == s.h.bill.due_date
        next_due == compute_next_due(recurring.recurrence, due + 1, recurring.billing_day,
                                     recurring.billing_weekday, recurring.billing_month,
                                     recurring.anchor_date)
    IN [s EXCEPT !.r[s.h.bill.recurring_id].next_due = next_due, !.h = IdleHandler]

\* line 1826: follow_up = get_today(settings) + timedelta(days=1)
FollowUpDay(today) == today + 1

\* lines 1825-1831
HStepLater(s) ==
    [s EXCEPT !.b[s.h.bill_instance_id] =
                  [@ EXCEPT !.status = "pending", !.follow_up_on = FollowUpDay(day)],
              !.h = IdleHandler]

HStep(s) ==
    CASE s.h.pc = "read" -> HStepRead(s)
      [] s.h.pc = "append" -> HStepAppend(s)
      [] s.h.pc = "update_bill" -> HStepUpdateBill(s)
      [] s.h.pc = "update_recurring" -> HStepUpdateRecurring(s)
      [] s.h.pc = "later_update" -> HStepLater(s)
      [] OTHER -> s

RECURSIVE RunHandler(_)
RunHandler(s) == IF s.h.pc = "idle" THEN s ELSE RunHandler(HStep(s))

HandlerCall(action, user, bill_instance_id) ==
    [IdleHandler EXCEPT !.pc = "read", !.action = action, !.user = user,
                        !.bill_instance_id = bill_instance_id]

\* the whole call, as the event loop runs it: without yielding
_handle_recurring_action(action, user, bill_instance_id) ==
    RunHandler(HSys(HandlerCall(action, user, bill_instance_id),
                    recurring_expenses, bill_instances, transactions, next_tx))

\* callback data split at ":" (line 1751), the id place holding numerals and other texts
DataSamples ==
    {<<"recurring">>, <<"recurring", "paid">>, <<"recurring", "paid", "1", "1">>}
        \cup {<<"recurring", action, text>> :
                  action \in {"paid", "later", "no", "skip"},
                  text \in {"1", "2", "3", "-1", " 2 ", "", "x", "1x"}}

\* lines 1751-1758: three parts, the third an integer
ParseData(parts) ==
    IF Len(parts) # 3 THEN [ok |-> FALSE]
    ELSE IF parts[3] \notin DOMAIN Numerals THEN [ok |-> FALSE]
    ELSE [ok |-> TRUE, action |-> parts[2], bill_instance_id |-> Numerals[parts[3]]]

\* the call on the callback data as it arrives: lines 1750-1836
handle_recurring_data(user, parts) ==
    IF ParseData(parts).ok
    THEN _handle_recurring_action(ParseData(parts).action, user,
                                  ParseData(parts).bill_instance_id)
    ELSE HSys(IdleHandler, recurring_expenses, bill_instances, transactions, next_tx)

\* ------------------------------ the recurring commands of the bot (pipeline.py)

\* a lookup that finds no row
find_no_recurring(rows, user_id, recurrence_id) == NoId

\* select * from recurring_expenses where user_id = :user_id and recurrence_id = :recurrence_id
find_recurring_by_recurrence_id(rows, user_id, recurrence_id) ==
    IF \E i \in SeqIds(rows) : rows[i].user_id = user_id /\ rows[i].recurrence_id = recurrence_id
    THEN SetMin({i \in SeqIds(rows) :
                    rows[i].user_id = user_id /\ rows[i].recurrence_id = recurrence_id})
    ELSE NoId

\* insert into recurring_expenses ... returning *; the table has
\* unique (user_id, recurrence_id) (0002_recurring.py), so the insert of a known
\* pair raises and adds nothing; id NoId stands for the exception;
\* line 352: data.get("remind_offsets") or [3, 1]
create_recurring_expense(rows, data) ==
    IF \E i \in SeqIds(rows) : /\ rows[i].user_id = data.user_id
                               /\ rows[i].recurrence_id = data.recurrence_id
    THEN [rows |-> rows, id |-> NoId]
    ELSE [rows |-> Append(rows, [data EXCEPT !.remind_offsets =
                                           json_list(IF @ = <<>> THEN <<3, 1>> ELSE @)]),
          id |-> Len(rows) + 1]

\* the row both creating commands insert: status pending, no next_due
NewRecurring(user_id, recurrence_id, recurrence, billing_day, billing_weekday, today, amount) ==
    [user_id |-> user_id, recurrence |-> recurrence, billing_day |-> billing_day,
     billing_weekday |-> billing_weekday, billing_month |-> MonthOf(today),
     anchor_date |-> today, tz |-> 0, reminder_hour |-> DefaultReminderHour,
     remind_offsets |-> <<3, 1, 0>>, next_due |-> NoDate, status |-> "pending",
     auto_add_transaction |-> TRUE, amount |-> amount,
     payment_link |-> "", payment_reference |-> "", recurrence_id |-> recurrence_id]

\* update_recurring_expense(id, {"status": "active", "next_due": compute_next_due(...)})
\* on the row as it is stored: lines 1411-1425, 1500-1513, 1600-1610
Activated(rows, id, today) ==
    [rows EXCEPT ![id].status = "active",
                 ![id].next_due = compute_next_due(rows[id].recurrence, today,
                                                   rows[id].billing_day,
                                                   rows[id].billing_weekday,
                                                   rows[id].billing_month,
                                                   rows[id].anchor_date)]

\* no dialog pending: no recurring_setup, recurring_offer, recurring_edit_reminders
\* or recurring_cancel_confirm
NoSetup == [recurring_id |-> NoId, step |-> "", recurrence |-> ""]

\* the transaction of a recurring_offer dialog; NoTx: no offer pending
NoTx == [recurrenceId |-> "", recurrence |-> "", amount |-> 0, date |-> NoDate]

NoPending == [setup |-> NoSetup, offer |-> NoTx, edit |-> NoId, cancel |-> NoId]

\* the tables the commands write: r recurring_expenses, p bot_pending_actions
CSys(r, p) == [r |-> r, p |-> p]

\* lines 1405-1409: a weekday for weekly and biweekly, a day of the month otherwise
HasSchedule(row) ==
    IF row.recurrence \in {"weekly", "biweekly"}
    THEN row.billing_weekday # NoWeekday
    ELSE row.billing_day # 0

\* line 1349: recurrence_id = f"REC:{service_name.upper().replace(' ', '_')[:40]}"
RecurrenceIdOf ==
    ("Netflix" :> "REC:NETFLIX") @@ ("netflix" :> "REC:NETFLIX") @@ ("Gym" :> "REC:GYM")

\* lines 1359-1401: the row of the service, updated when known, inserted otherwise
StartRow(rows, user, recurrence_id, recurrence, billing_day, billing_weekday, offsets, today) ==
    IF find_recurring_by_recurrence_id(rows, user, recurrence_id) # NoId
    THEN [rows |-> [rows EXCEPT
                       ![find_recurring_by_recurrence_id(rows, user, recurrence_id)] =
                           [@ EXCEPT !.recurrence = recurrence,
                                     !.billing_day = IF billing_day # 0 THEN billing_day ELSE @,
                                     !.billing_weekday = IF billing_weekday # NoWeekday
                                                         THEN billing_weekday ELSE @,
                                     !.remind_offsets = json_list(offsets),
                                     !.status = "pending"]],
          id |-> find_recurring_by_recurrence_id(rows, user, recurrence_id)]
    ELSE create_recurring_expense(rows, [NewRecurring(user, recurrence_id, recurrence,
                                                      billing_day, billing_weekday, today, 0)
                                             EXCEPT !.remind_offsets = offsets])

\* lines 1403-1449: active at once when the text gave the schedule, else the setup
\* dialog starts
StartFinish(s, user, recurrence, c, today) ==
    IF c.id = NoId THEN s
    ELSE IF HasSchedule([c.rows[c.id] EXCEPT !.recurrence = recurrence])
    THEN CSys(Activated([c.rows EXCEPT ![c.id].recurrence = recurrence], c.id, today), s.p)
    ELSE CSys(c.rows, [s.p EXCEPT ![user].setup = [recurring_id |-> c.id,
                                                   step |-> "ask_billing_day",
                                                   recurrence |-> recurrence]])

\* lines 1337-1449; the text is given by what the parsers read in it: the service,
\* the recurrence, the day (0: none) or weekday (NoWeekday: none) of its kind, and
\* the offsets (lines 1344-1348)
_start_recurring_from_text(s, user, service_name, recurrence, billing_day, billing_weekday, offsets, today) ==
    StartFinish(s, user, recurrence,
                StartRow(s.r, user, RecurrenceIdOf[service_name], recurrence,
                         IF recurrence \in {"monthly", "quarterly", "yearly"}
                         THEN billing_day ELSE 0,
                         IF recurrence \in {"weekly", "biweekly"}
                         THEN billing_weekday ELSE NoWeekday,
                         offsets, today),
                today)

\* lines 1271-1304: the row of a detected recurring payment: the known row, or a new
\* one with status pending and no billing day
_create_recurring_from_tx(rows, user_id, tx) ==
    IF find_recurring_by_recurrence_id(rows, user_id, tx.recurrenceId) # NoId
    THEN [rows |-> [rows EXCEPT
                       ![find_recurring_by_recurrence_id(rows, user_id, tx.recurrenceId)] =
                           IF @.anchor_date = NoDate
                           THEN [@ EXCEPT !.anchor_date = tx.date,
                                          !.billing_month = MonthOf(tx.date)]
                           ELSE @],
          id |-> find_recurring_by_recurrence_id(rows, user_id, tx.recurrenceId)]
    ELSE create_recurring_expense(rows, NewRecurring(user_id, tx.recurrenceId, tx.recurrence,
                                                     0, NoWeekday, tx.date, tx.amount))

\* lines 1317-1335: the offer is accepted: its row, then the setup dialog
OfferFinish(s, user, c) ==
    IF c.id = NoId THEN s
    ELSE CSys(c.rows, [s.p EXCEPT ![user].offer = NoTx,
                                  ![user].setup = [recurring_id |-> c.id,
                                                   step |-> "ask_billing_day",
                                                   recurrence |-> c.rows[c.id].recurrence]])

\* lines 1306-1335: the answer to the offer made for a detected payment
_handle_recurring_offer(s, user, answer) ==
    IF answer = "no" THEN CSys(s.r, [s.p EXCEPT ![user].offer = NoTx])
    ELSE IF answer # "si" THEN s
    ELSE OfferFinish(s, user, _create_recurring_from_tx(s.r, user, s.p[user].offer))

\* lines 785-813: a recorded payment that looks recurring is offered, unless its
\* recurring expense is active already
_offer_recurring_setup(s, user, tx) ==
    IF tx.recurrenceId = "" THEN s
    ELSE IF \E i \in SeqIds(s.r) : /\ s.r[i].user_id = user
                                  /\ s.r[i].recurrence_id = tx.recurrenceId
                                  /\ s.r[i].status = "active"
    THEN s
    ELSE CSys(s.r, [s.p EXCEPT ![user].offer = tx])

\* recurring_flow.py 388-397: the answer to ask_billing_day, by what parse_weekday
\* and parse_billing_day read in it; ok is FALSE when the parser of the kind reads nothing
handle_setup_step(recurrence, answer) ==
    IF recurrence \in {"weekly", "biweekly"}
    THEN [ok |-> answer.weekday # NoWeekday, billing_day |-> 0, billing_weekday |-> answer.weekday]
    ELSE [ok |-> answer.day # 0, billing_day |-> answer.day, billing_weekday |-> NoWeekday]

\* lines 1494-1514: the update of the answer, then the activation of the row with
\* the id of the dialog, if there is one; the dialog ends
SetupDone(s, user, id, result, today) ==
    IF id \notin SeqIds(s.r) THEN CSys(s.r, [s.p EXCEPT ![user].setup = NoSetup])
    ELSE CSys(Activated([s.r EXCEPT ![id].billing_day =
                                        IF result.billing_day # 0 THEN result.billing_day ELSE @,
                                    ![id].billing_weekday =
                                        IF result.billing_weekday # NoWeekday
                                        THEN result.billing_weekday ELSE @],
                        id, today),
              [s.p EXCEPT ![user].setup = NoSetup])

\* lines 1470-1525
_handle_recurring_setup(s, user, answer, today) ==
    IF s.p[user].setup = NoSetup THEN s
    ELSE IF ~handle_setup_step(s.p[user].setup.recurrence, answer).ok THEN s
    ELSE SetupDone(s, user, s.p[user].setup.recurring_id,
                   handle_setup_step(s.p[user].setup.recurrence, answer), today)

\* lines 1592-1594, 1640-1642 and 1675-1677: the row exists and is the caller's
OwnRecurring(rows, user, recurring_id) ==
    recurring_id \in SeqIds(rows) /\ rows[recurring_id].user_id = user

\* lines 1578-1613: pausar ID, activar ID
_handle_recurring_toggle(s, user, action, recurring_id, today) ==
    IF ~OwnRecurring(s.r, user, recurring_id) THEN s
    ELSE IF action = "pausar" THEN CSys([s.r EXCEPT ![recurring_id].status = "paused"], s.p)
    ELSE IF action = "activar" THEN CSys(Activated(s.r, recurring_id, today), s.p)
    ELSE s

\* lines 1632-1654: cancelar ID asks for a confirmation
_handle_recurring_cancel(s, user, recurring_id) ==
    IF ~OwnRecurring(s.r, user, recurring_id) THEN s
    ELSE CSys(s.r, [s.p EXCEPT ![user].cancel = recurring_id])

\* lines 1656-1685: the answer to the confirmation
_handle_recurring_cancel_confirm(s, user, answer) ==
    IF s.p[user].cancel = NoId THEN s
    ELSE IF answer = "no" THEN CSys(s.r, [s.p EXCEPT ![user].cancel = NoId])
    ELSE IF answer # "si" THEN s
    ELSE IF ~OwnRecurring(s.r, user, s.p[user].cancel)
    THEN CSys(s.r, [s.p EXCEPT ![user].cancel = NoId])
    ELSE CSys([s.r EXCEPT ![s.p[user].cancel].status = "canceled"],
              [s.p EXCEPT ![user].cancel = NoId])

\* lines 1136-1148: after the update, next_due of an active row is recomputed
Refreshed(rows, id, today) ==
    IF rows[id].status = "active"
    THEN [rows EXCEPT ![id].next_due = compute_next_due(rows[id].recurrence, today,
                                                       rows[id].billing_day,
                                                       rows[id].billing_weekday,
                                                       rows[id].billing_month,
                                                       rows[id].anchor_date)]
    ELSE rows

\* lines 1071-1153: the update intent, with the recurrence ("": none) and the
\* billing day (0: none) read in the text
_try_handle_recurring_natural_ai(s, user, recurring_id, recurrence, billing_day, today) ==
    IF ~OwnRecurring(s.r, user, recurring_id) THEN s
    ELSE IF recurrence \notin Recurrences /\ billing_day = 0 THEN s
    ELSE CSys(Refreshed([s.r EXCEPT ![recurring_id].recurrence =
                                        IF recurrence \in Recurrences THEN recurrence ELSE @,
                                    ![recurring_id].billing_day =
                                        IF billing_day # 0 THEN billing_day ELSE @],
                        recurring_id, today),
              s.p)

\* list.sort(reverse=True) of distinct values
RECURSIVE SortedDesc(_)
SortedDesc(S) ==
    IF S = {} THEN <<>>
    ELSE LET top == CHOOSE x \in S : \A y \in S : y <= x IN <<top>> \o SortedDesc(S \ {top})

\* what parse_remind_offsets reads in a text: numbers, the matches of -?\d{1,2} in
\* order; same_day, whether one of the same-day patterns matches
Scan(numbers, same_day) == [numbers |-> numbers, same_day |-> same_day]

\* recurring_flow.py 59-83: the absolute values found, once each, 0 for a same-day
\* pattern, largest first
parse_remind_offsets(scan) ==
    SortedDesc({(IF scan.numbers[k] < 0 THEN 0 - scan.numbers[k] ELSE scan.numbers[k]) :
                    k \in 1..Len(scan.numbers)}
               \cup (IF scan.same_day THEN {0} ELSE {}))

\* lines 1344-1348: [3, 1, 0] unless the text speaks of reminders and offsets are read
StartOffsets(asks, scan) ==
    IF asks /\ parse_remind_offsets(scan) # <<>> THEN parse_remind_offsets(scan) ELSE <<3, 1, 0>>

\* lines 1557-1576: the offsets are stored on the caller's row, the dialog ends
EditDone(s, user, recurring_id, offsets) ==
    IF ~OwnRecurring(s.r, user, recurring_id) THEN s
    ELSE CSys([s.r EXCEPT ![recurring_id].remind_offsets = json_list(offsets)],
              [s.p EXCEPT ![user].edit = NoId])

\* lines 1527-1576: recordatorios ID text, or a free text while the dialog is
\* pending; with the dialog pending its row is edited and the whole text is read
_handle_recurring_edit(s, user, recurring_id, rest, content) ==
    IF s.p[user].edit # NoId
    THEN IF parse_remind_offsets(content) = <<>> THEN s
         ELSE EditDone(s, user, s.p[user].edit, parse_remind_offsets(content))
    ELSE IF parse_remind_offsets(rest) = <<>>
    THEN CSys(s.r, [s.p EXCEPT ![user].edit = recurring_id])
    ELSE EditDone(s, user, recurring_id, parse_remind_offsets(rest))

\* what the parsers read in a free text: parse_billing_day (0: nothing),
\* parse_weekday (NoWeekday: nothing), is_affirmative / is_negative, and
\* parse_remind_offsets
Answers ==
    ("5" :> [day |-> 5, weekday |-> NoWeekday, confirm |-> "", scan |-> Scan(<<5>>, FALSE)])
    @@ ("martes" :> [day |-> 0, weekday |-> 1, confirm |-> "", scan |-> Scan(<<>>, FALSE)])
    @@ ("si" :> [day |-> 0, weekday |-> NoWeekday, confirm |-> "si", scan |-> Scan(<<>>, FALSE)])
    @@ ("no" :> [day |-> 0, weekday |-> NoWeekday, confirm |-> "no", scan |-> Scan(<<>>, FALSE)])
    @@ ("hola" :> [day |-> 0, weekday |-> NoWeekday, confirm |-> "", scan |-> Scan(<<>>, FALSE)])

\* lines 696-733: a free text goes to the first dialog pending, in this order
_handle_pending_actions(s, user, text, today) ==
    IF s.p[user].setup # NoSetup THEN _handle_recurring_setup(s, user, Answers[text], today)
    ELSE IF s.p[user].offer # NoTx THEN _handle_recurring_offer(s, user, Answers[text].confirm)
    ELSE IF s.p[user].edit # NoId
    THEN _handle_recurring_edit(s, user, NoId, Answers[text].scan, Answers[text].scan)
    ELSE IF s.p[user].cancel # NoId
    THEN _handle_recurring_cancel_confirm(s, user, Answers[text].confirm)
    ELSE s

\* lines 686-694: the first dialog pending is past its expires_at: the text deletes it
Expired(s, user) ==
    IF s.p[user].setup # NoSetup THEN CSys(s.r, [s.p EXCEPT ![user].setup = NoSetup])
    ELSE IF s.p[user].offer # NoTx THEN CSys(s.r, [s.p EXCEPT ![user].offer = NoTx])
    ELSE IF s.p[user].edit # NoId THEN CSys(s.r, [s.p EXCEPT ![user].edit = NoId])
    ELSE CSys(s.r, [s.p EXCEPT ![user].cancel = NoId])


\* ---------------------------------------------------------------- initial states

Expense(user_id, recurrence, billing_day, billing_weekday, billing_month, anchor_date, tz, reminder_hour, remind_offsets, next_due, auto_add_transaction, amount) ==
    [user_id |-> user_id, recurrence |-> recurrence, billing_day |-> billing_day,
     billing_weekday |-> billing_weekday, billing_month |-> billing_month,
     anchor_date |-> anchor_date, tz |-> tz, reminder_hour |-> reminder_hour,
     remind_offsets |-> json_list(remind_offsets), next_due |-> next_due, status |-> "active",
     auto_add_transaction |-> auto_add_transaction, amount |-> amount,
     payment_link |-> "link", payment_reference |-> "ref",
     recurrence_id |-> "REC:NETFLIX"]

OneChannel == [u \in Users |-> {"telegram"}]
TwoChannels == [u \in Users |-> Channels]

\* The stores the runs start from: one active expense, a few days before a due date.

\* the monthly subscription of the end-to-end example, due 2025-06-05
MonthlyScenario ==
    [recurring_expenses |->
         <<Expense("u1", "monthly", 5, NoWeekday, 0, NoDate, 0, 9, <<3, 1, 0>>,
                   MkDate(2025, 6, 5), TRUE, 50000)>>,
     start |-> MkDate(2025, 6, 4), user_identities |-> OneChannel]

\* a monthly expense on day 31, clamped to 2025-02-28, on a clock 14 hours ahead
MonthEndScenario ==
    [recurring_expenses |->
         <<Expense("u2", "monthly", 31, NoWeekday, 0, NoDate, 14, 9, <<1>>,
                   NoDate, TRUE, 50000)>>,
     start |-> MkDate(2025, 2, 27), user_identities |-> TwoChannels]

\* a quarterly expense anchored in January, due 2025-10-05
QuarterlyScenario ==
    [recurring_expenses |->
         <<Expense("u1", "quarterly", 5, NoWeekday, 1, NoDate, 0, 9, <<1, 0>>,
                   NoDate, FALSE, 50000)>>,
     start |-> MkDate(2025, 10, 4), user_identities |-> OneChannel]

\* a weekly expense due on Wednesdays
WeeklyScenario ==
    [recurring_expenses |->
         <<Expense("u1", "weekly", 0, 2, 0, NoDate, 0, 9, <<1, 0>>,
                   NoDate, TRUE, 39900)>>,
     start |-> MkDate(2025, 6, 3), user_identities |-> OneChannel]

Scenarios ==
    {MonthlyScenario, MonthEndScenario, QuarterlyScenario, WeeklyScenario}

\* The hours of the day at which the model looks at the system: the default
\* reminder hour and an evening hour (the reminder hour of a clock 14 hours ahead).
\* The clock jumps from one to the next.
SampledHours == {9, 19}

NextSampledHour(h) ==
    IF \E x \in SampledHours : x > h
    THEN SetMin({x \in SampledHours : x > h})
    ELSE SetMin(SampledHours)

HandlerIds == {1, 2}

InitFrom(sc) ==
    /\ day = sc.start
    /\ startDay = sc.start
    /\ recurring_expenses = sc.recurring_expenses
    /\ bill_instances = <<>>
    /\ bill_instance_reminders = <<>>
    /\ transactions = <<>>
    /\ next_tx = 0
    /\ user_identities = sc.user_identities
    /\ tick = IdleTick
    /\ tick2 = IdleTick
    /\ handlers = [p \in HandlerIds |-> IdleHandler]
    /\ ticked = FALSE
    /\ crashes = 0
    /\ dispatches = {}
    /\ faults = {}
    /\ pending_actions = [u \in Users |-> NoPending]
    /\ messages = 0

Init == hour = SetMin(SampledHours) /\ \E sc \in Scenarios : InitFrom(sc)

\* ------------------------------------------------------------------- the tick

HandlersIdle == \A p \in HandlerIds : handlers[p].pc = "idle"

TickSys(t) == Sys(t, recurring_expenses, bill_instances, bill_instance_reminders)

\* the tick's writes reach the tables
TickWrites(s) ==
    /\ recurring_expenses' = s.r
    /\ bill_instances' = s.b
    /\ bill_instance_reminders' = s.m

\* the tick reaches its next Notifier call, or returns
TickYields(s) ==
    /\ Stops(s)
    /\ TickWrites(s)
    /\ tick' = s.t

\* the tick dies where it is
TickDies(s) ==
    /\ ~Stops(s)
    /\ TickWrites(s)
    /\ tick' = IdleTick

\* main.py: CronTrigger(minute=0), max_instances=1: a run starts when none is running
TickBegin == TickSys([IdleTick EXCEPT !.pc = "sweep", !.today = day])

TickStart ==
    /\ tick.pc = "idle"
    /\ ~ticked
    /\ ticked' = TRUE
    /\ TickYields(Run(TickBegin, RunFuel))
    /\ UNCHANGED <<day, hour, transactions, next_tx, user_identities, handlers,
                   crashes, dispatches, startDay, faults, pending_actions, messages, tick2>>

\* the user the waiting prompt is for
PromptUser ==
    IF tick.pc = "follow_up_send" THEN Head(tick.follow_ups).user_id
    ELSE Head(tick.recurring_expenses).row.user_id

\* the record of one prompt: what the reminder row says, the day it went out
\* and the channels that took it
Dispatch(attempted, accepted) ==
    LET row == bill_instance_reminders[tick.reminder_id]
    IN [bill_instance_id |-> row.bill_instance_id, reminder_offset |-> row.reminder_offset,
        scheduled_for |-> row.scheduled_for, reminder_id |-> tick.reminder_id,
        on |-> day, attempted |-> attempted, accepted |-> accepted]

\* lines 279-305 and 375-401: delivered is set after bot.send_message returned without
\* raising, and after send_evolution_message returned; send_evolution_message
\* (evolution_adapter.py 153-225) catches the HTTP error of a failed send itself and
\* returns, so delivered is set for every attempt on that channel
Delivered(attempted, accepted) == "telegram" \in accepted \/ "evolution" \in attempted

\* the tick after the Notifier calls
TickAfterSend(accepted) ==
    TickSys([tick EXCEPT !.delivered = Delivered(user_identities[PromptUser], accepted),
                         !.pc = IF tick.pc = "follow_up_send" THEN "follow_up_clear"
                                ELSE "reminder_sent"])

\* lines 263-305 and 368-401: one send per channel the user has, each may fail
TickDeliver ==
    /\ tick.pc \in {"follow_up_send", "reminder_send"}
    /\ \E accepted \in SUBSET user_identities[PromptUser] :
          /\ TickYields(Run(TickAfterSend(accepted), RunFuel))
          /\ dispatches' = dispatches \cup {Dispatch(user_identities[PromptUser], accepted)}
    /\ UNCHANGED <<day, hour, transactions, next_tx, user_identities, handlers,
                   ticked, crashes, startDay, faults, pending_actions, messages, tick2>>

\* the process dies during a tick: at its start or between two store calls, while it
\* waits for the Notifier, or after the Notifier answered
TickCrash ==
    \/ /\ tick.pc = "idle"
       /\ ~ticked
       /\ crashes < MaxCrashes
       /\ crashes' = crashes + 1
       /\ \E n \in 0..CrashFuel : TickDies(Run(TickBegin, n))
       /\ UNCHANGED <<day, hour, transactions, next_tx, user_identities,
                      handlers, ticked, dispatches, startDay, faults, pending_actions, messages, tick2>>
    \/ /\ tick.pc \in {"follow_up_send", "reminder_send"}
       /\ crashes < MaxCrashes
       /\ crashes' = crashes + 1
       /\ tick' = IdleTick
       /\ ticked' = FALSE
       /\ UNCHANGED <<day, hour, store, next_tx, user_identities,
                      handlers, dispatches, startDay, faults, pending_actions, messages, tick2>>
    \/ /\ tick.pc \in {"follow_up_send", "reminder_send"}
       /\ crashes < MaxCrashes
       /\ crashes' = crashes + 1
       /\ \E accepted \in SUBSET user_identities[PromptUser], n \in 0..CrashFuel :
             /\ TickDies(Run(TickAfterSend(accepted), n))
             /\ dispatches' = dispatches \cup {Dispatch(user_identities[PromptUser], accepted)}
       /\ ticked' = FALSE
       /\ UNCHANGED <<day, hour, transactions, next_tx, user_identities,
                      handlers, startDay, faults, pending_actions, messages, tick2>>

\* the number of times the clock has moved on since the start
Advances ==
    (day - startDay) * Cardinality(SampledHours) + Cardinality({h \in SampledHours : h < hour})

\* the clock moves on between ticks
AdvanceHour ==
    /\ tick.pc = "idle"
    /\ HandlersIdle
    /\ Advances < MaxAdvances
    /\ hour' = NextSampledHour(hour)
    /\ day' = IF NextSampledHour(hour) > hour THEN day ELSE day + 1
    /\ ticked' = FALSE
    /\ UNCHANGED <<store, next_tx, user_identities, tick, handlers, crashes,
                   dispatches, startDay, faults, pending_actions, messages, tick2>>

\* ------------------------------------------------------------ the user's actions

\* The action ids a user can send are the buttons of the prompts that reached the
\* user: recurring:<paid|later|no>:<bill instance id>.
Prompted(user) ==
    {d.bill_instance_id : d \in {x \in dispatches : x.accepted # {}}}
        \cap {i \in SeqIds(bill_instances) :
                  recurring_expenses[bill_instances[i].recurring_id].user_id = user}

\* ids a caller may also send: an instance of another user, and no instance at all
BillIds(user) == Prompted(user) \cup {i \in 1..(Len(bill_instances) + 1) :
                     i \in SeqIds(bill_instances) =>
                         recurring_expenses[bill_instances[i].recurring_id].user_id # user}

HandlerWrites(s) ==
    /\ recurring_expenses' = s.r
    /\ bill_instances' = s.b
    /\ transactions' = s.l
    /\ next_tx' = s.n

Confirm(action, user, bill_instance_id) ==
    /\ HandlersIdle
    /\ HandlerWrites(_handle_recurring_action(action, user, bill_instance_id))
    /\ UNCHANGED <<day, hour, bill_instance_reminders, user_identities,
                   tick, handlers, ticked, crashes, dispatches, startDay, faults, pending_actions, messages, tick2>>

Paid == next_tx < MaxTx /\ \E user \in Users : \E id \in BillIds(user) : Confirm("paid", user, id)
Later == \E user \in Users : \E id \in BillIds(user) : Confirm("later", user, id)
No == \E user \in Users : \E id \in BillIds(user) : Confirm("no", user, id)

Next ==
    \/ TickStart
    \/ TickDeliver
    \/ TickCrash
    \/ AdvanceHour
    \/ Paid
    \/ Later
    \/ No

Spec == Init /\ [][Next]_vars

\* ------------------------------------- a tick every hour, a channel that accepts

MaxHourlyDays == 5      \* days on which the hourly job runs

\* the end-to-end example from 2025-06-02 on, the user reachable on two channels
HourlyScenario ==
    [MonthlyScenario EXCEPT !.start = MkDate(2025, 6, 2), !.user_identities = TwoChannels]

InitHourly == hour = 0 /\ InitFrom(HourlyScenario)

\* main.py: CronTrigger(minute=0): the next run is the next hour's
ClockTicks ==
    /\ hour' = (hour + 1) % HoursPerDay
    /\ day' = IF hour + 1 = HoursPerDay THEN day + 1 ELSE day

\* the run's writes; when the run has returned, the hour is over
HourlyAfter(s) ==
    /\ TickYields(s)
    /\ IF s.t.pc = "idle" THEN ClockTicks ELSE UNCHANGED <<day, hour>>

\* the job of the current hour starts
HourlyTick ==
    /\ tick.pc = "idle"
    /\ day - startDay < MaxHourlyDays
    /\ HourlyAfter(Run(TickBegin, RunFuel))
    /\ UNCHANGED <<transactions, next_tx, user_identities, handlers, ticked, crashes,
                   dispatches, startDay, faults, pending_actions, messages, tick2>>

\* the Notifier answers: at least one channel took the prompt
HourlyDeliver ==
    /\ tick.pc \in {"follow_up_send", "reminder_send"}
    /\ \E accepted \in SUBSET user_identities[PromptUser] :
          /\ accepted # {}
          /\ HourlyAfter(Run(TickAfterSend(accepted), RunFuel))
          /\ dispatches' = dispatches \cup {Dispatch(user_identities[PromptUser], accepted)}
    /\ UNCHANGED <<transactions, next_tx, user_identities, handlers, ticked, crashes,
                   startDay, faults, pending_actions, messages, tick2>>

NextHourly ==
    \/ HourlyTick
    \/ HourlyDeliver

SpecHourly == InitHourly /\ [][NextHourly]_vars

\* the same clock, and a user who answers the prompts with 'later' or 'no'
LaterScenario == [MonthlyScenario EXCEPT !.start = MkDate(2025, 6, 2)]

InitLater == hour = 0 /\ InitFrom(LaterScenario)

NextLater ==
    \/ HourlyTick
    \/ HourlyDeliver
    \/ Later
    \/ No

SpecLater == InitLater /\ [][NextLater]_vars

\* the same clock from the eve of the due date, the user answering with any button
DaysScenario == [MonthlyScenario EXCEPT !.start = MkDate(2025, 6, 4)]

InitDays == hour = 0 /\ InitFrom(DaysScenario)

NextDays ==
    \/ HourlyTick
    \/ HourlyDeliver
    \/ Paid
    \/ Later
    \/ No

SpecDays == InitDays /\ [][NextDays]_vars

\* ------------------------------------------ store calls that raise during a tick

\* two subscriptions of two users, both due 2025-06-05 and reminded the day before
FaultyScenario ==
    [recurring_expenses |->
         <<Expense("u1", "monthly", 5, NoWeekday, 0, NoDate, 0, 9, <<1, 0>>,
                   MkDate(2025, 6, 5), TRUE, 50000),
           Expense("u2", "monthly", 5, NoWeekday, 0, NoDate, 0, 9, <<1>>,
                   MkDate(2025, 6, 5), TRUE, 39900)>>,
     start |-> MkDate(2025, 6, 4), user_identities |-> OneChannel]

InitFaulty == hour = SetMin(SampledHours) /\ InitFrom(FaultyScenario)

\* the calls of the loop body that go to the store: upsert_bill_instance (line 341)
\* and create_bill_reminder_if_missing (line 360)
FaultPoints == {<<id, call>> : id \in SeqIds(recurring_expenses), call \in {"upsert", "create"}}

\* before the job of the hour runs, some store calls start to raise
StoreFails ==
    /\ tick.pc = "idle"
    /\ ~ticked
    /\ faults = {}
    /\ \E f \in SUBSET FaultPoints : f # {} /\ faults' = f
    /\ UNCHANGED <<day, hour, store, next_tx, user_identities, tick, handlers, ticked,
                   crashes, dispatches, startDay, pending_actions, messages, tick2>>

\* and stop raising
StoreHeals ==
    /\ tick.pc = "idle"
    /\ ~ticked
    /\ faults # {}
    /\ faults' = {}
    /\ UNCHANGED <<day, hour, store, next_tx, user_identities, tick, handlers, ticked,
                   crashes, dispatches, startDay, pending_actions, messages, tick2>>

NextFaulty ==
    \/ TickStart
    \/ TickDeliver
    \/ AdvanceHour
    \/ StoreFails
    \/ StoreHeals

SpecFaulty == InitFaulty /\ [][NextFaulty]_vars

\* ------------------------------------------- the commands, one message at a time

MaxMessages == 3        \* messages the bot handles

\* 2025-06-04: the one recurring expense so far, u1's Netflix, was canceled
CommandsScenario ==
    [recurring_expenses |->
         <<[Expense("u1", "monthly", 5, NoWeekday, 5, MkDate(2025, 5, 5), 0, 9, <<3, 1, 0>>,
                    MkDate(2025, 6, 5), TRUE, 39900) EXCEPT !.status = "canceled"]>>,
     start |-> MkDate(2025, 6, 4), user_identities |-> OneChannel]

InitCommands == hour = SetMin(SampledHours) /\ InitFrom(CommandsScenario)

CNow == CSys(recurring_expenses, pending_actions)

\* a message handled while no tick and no callback is under way writes s
Commanded(s) ==
    /\ tick.pc = "idle"
    /\ HandlersIdle
    /\ messages < MaxMessages
    /\ messages' = messages + 1
    /\ recurring_expenses' = s.r
    /\ pending_actions' = s.p
    /\ UNCHANGED <<day, hour, bill_instances, bill_instance_reminders, transactions,
                   next_tx, user_identities, tick, handlers, ticked, crashes,
                   dispatches, startDay, faults, tick2>>

\* what the parsers of _start_recurring_from_text read in a text: parse_service_name,
\* parse_recurrence, _parse_billing_day_from_text (0: nothing), parse_weekday, the
\* reminder words of line 1345 (asks) and parse_remind_offsets
StartTexts ==
    ("recordar Netflix mensual el 5" :>
         [service_name |-> "Netflix", recurrence |-> "monthly", billing_day |-> 5, billing_weekday |-> NoWeekday,
          asks |-> FALSE, scan |-> Scan(<<5>>, FALSE)])
    @@ ("recordar netflix cada semana" :>
         [service_name |-> "netflix", recurrence |-> "weekly", billing_day |-> 0, billing_weekday |-> NoWeekday,
          asks |-> FALSE, scan |-> Scan(<<>>, FALSE)])
    @@ ("recordar Gym mensual, avisame 3 dias antes" :>
         [service_name |-> "Gym", recurrence |-> "monthly", billing_day |-> 0, billing_weekday |-> NoWeekday,
          asks |-> TRUE, scan |-> Scan(<<3>>, FALSE)])
    @@ ("recordar Gym cada martes" :>
         [service_name |-> "Gym", recurrence |-> "weekly", billing_day |-> 0, billing_weekday |-> 1,
          asks |-> FALSE, scan |-> Scan(<<>>, FALSE)])

\* route recurring_create (pipeline.py 533-534)
StartRecurring ==
    \E user \in Users, text \in DOMAIN StartTexts :
        /\ StartTexts[text].service_name \in DOMAIN RecurrenceIdOf
        /\ Commanded(_start_recurring_from_text(CNow, user, StartTexts[text].service_name,
                                                StartTexts[text].recurrence,
                                                StartTexts[text].billing_day,
                                                StartTexts[text].billing_weekday,
                                                StartOffsets(StartTexts[text].asks, StartTexts[text].scan), day))

\* the payments the parser reports: not recurring, or recurring with a recurrenceId
TxSamples ==
    {[recurrenceId |-> "", recurrence |-> "monthly", amount |-> 39900, date |-> day],
     [recurrenceId |-> "REC:NETFLIX", recurrence |-> "monthly", amount |-> 39900, date |-> day],
     [recurrenceId |-> "REC:GYM", recurrence |-> "weekly", amount |-> 39900, date |-> day]}

\* AiFlow.handle (pipeline.py 440-450): a payment is recorded, and offered as a
\* recurring expense when the parser gave it a recurrenceId
AddTx ==
    /\ tick.pc = "idle"
    /\ HandlersIdle
    /\ next_tx < MaxTx
    /\ messages < MaxMessages
    /\ \E user \in Users, tx \in TxSamples :
           /\ transactions' = Append(transactions,
                                     [txId |-> next_tx + 1, userId |-> user, amount |-> tx.amount,
                                      date |-> tx.date, bill |-> NoId])
           /\ pending_actions' = _offer_recurring_setup(CNow, user, tx).p
    /\ next_tx' = next_tx + 1
    /\ messages' = messages + 1
    /\ UNCHANGED <<day, hour, recurring_expenses, bill_instances, bill_instance_reminders,
                   user_identities, tick, handlers, ticked, crashes, dispatches,
                   startDay, faults, tick2>>

\* route ai with a dialog pending (pipeline.py 517-525)
FreeText ==
    \E user \in Users, text \in DOMAIN Answers :
        /\ pending_actions[user] # NoPending
        /\ Commanded(_handle_pending_actions(CNow, user, text, day))

\* the same, twenty minutes after the dialog was opened
FreeTextLate ==
    \E user \in Users :
        /\ pending_actions[user] # NoPending
        /\ Commanded(Expired(CNow, user))

\* route recurring_toggle (pipeline.py 549-550)
Toggle ==
    \E user \in Users, action \in {"pausar", "activar"}, recurring_id \in 1..(Len(recurring_expenses) + 1) :
        Commanded(_handle_recurring_toggle(CNow, user, action, recurring_id, day))

\* recordatorios ID text: the id, what parse_remind_offsets reads after the id, and
\* what it reads in the whole text
EditTexts ==
    ("recordatorios 1 3 dias antes" :>
         [recurring_id |-> 1, rest |-> Scan(<<3>>, FALSE), content |-> Scan(<<1, 3>>, FALSE)])
    @@ ("recordatorios 1 -3 dias y el mismo dia" :>
         [recurring_id |-> 1, rest |-> Scan(<<0 - 3>>, TRUE), content |-> Scan(<<1, 0 - 3>>, TRUE)])
    @@ ("recordatorios 2 cuando toque" :>
         [recurring_id |-> 2, rest |-> Scan(<<>>, FALSE), content |-> Scan(<<2>>, FALSE)])

\* route recurring_edit (pipeline.py 543-544)
EditReminders ==
    \E user \in Users, text \in DOMAIN EditTexts :
        /\ EditTexts[text].recurring_id > 0
        /\ Commanded(_handle_recurring_edit(CNow, user, EditTexts[text].recurring_id,
                                            EditTexts[text].rest, EditTexts[text].content))

\* route recurring_cancel (pipeline.py 547-548)
Cancel ==
    \E user \in Users, recurring_id \in 1..(Len(recurring_expenses) + 1) :
        Commanded(_handle_recurring_cancel(CNow, user, recurring_id))

\* the update intent (pipeline.py 553-556)
Update ==
    \E user \in Users, recurring_id \in 1..(Len(recurring_expenses) + 1) :
        /\ pending_actions[user] = NoPending
        /\ \E recurrence \in {"", "weekly"}, billing_day \in {0, 31} :
            Commanded(_try_handle_recurring_natural_ai(CNow, user, recurring_id, recurrence,
                                                       billing_day, day))

NextCommands ==
    \/ StartRecurring
    \/ AddTx
    \/ FreeText
    \/ FreeTextLate
    \/ Toggle
    \/ EditReminders
    \/ Cancel
    \/ Update
    \/ TickStart
    \/ TickDeliver

SpecCommands == InitCommands /\ [][NextCommands]_vars

\* ----------------------------------- compute_next_due on the day of an activation

\* the days compute_next_due is called on: today
DueDays == MkDate(2024, 1, 1)..MkDate(2025, 12, 31)

\* a paused expense without next_due, on the day today
DueScenario(recurrence, today, billing_day, billing_weekday, billing_month, anchor_date) ==
    [recurring_expenses |->
         <<[Expense("u1", recurrence, billing_day, billing_weekday, billing_month, anchor_date,
                    0, 9, <<3, 1, 0>>, NoDate, TRUE, 39900) EXCEPT !.status = "paused"]>>,
     start |-> today, user_identities |-> OneChannel]

MonthlyDue ==
    {DueScenario("monthly", today, billing_day, NoWeekday, 0, NoDate) :
         today \in DueDays, billing_day \in {1, 15, 28, 29, 30, 31}}

QuarterlyDue ==
    {DueScenario("quarterly", MkDate(2024, m, d), billing_day, NoWeekday, billing_month, NoDate) :
         m \in 1..12, d \in {1, 15, 16, 28}, billing_day \in {15, 31}, billing_month \in 1..12}

BiweeklyDue ==
    {DueScenario("biweekly", today, 0, billing_weekday, 0, anchor_date) :
         today \in MkDate(2025, 6, 1)..MkDate(2025, 6, 21),
         billing_weekday \in {NoWeekday} \cup 0..6,
         anchor_date \in {NoDate} \cup MkDate(2025, 5, 26)..MkDate(2025, 6, 10)}

InitNextDue ==
    /\ hour = SetMin(SampledHours)
    /\ \E sc \in MonthlyDue \cup QuarterlyDue \cup BiweeklyDue : InitFrom(sc)

\* the owner of a paused expense sends activar ID (pipeline.py 549-550)
Activate ==
    \E recurring_id \in SeqIds(recurring_expenses) :
        /\ recurring_expenses[recurring_id].status = "paused"
        /\ Commanded(_handle_recurring_toggle(CNow, recurring_expenses[recurring_id].user_id,
                                              "activar", recurring_id, day))

\* the owner of an active expense sends pausar ID
Pause ==
    \E recurring_id \in SeqIds(recurring_expenses) :
        /\ recurring_expenses[recurring_id].status = "active"
        /\ Commanded(_handle_recurring_toggle(CNow, recurring_expenses[recurring_id].user_id,
                                              "pausar", recurring_id, day))

NextNextDue == Activate \/ Pause

SpecNextDue == InitNextDue /\ [][NextNextDue]_vars

\* --------------------------- two workers handling callbacks on the same database

\* Inside one event loop _handle_recurring_action runs without yielding; each of its
\* store calls is a transaction of its own, so the calls of two processes interleave.
InitConc == hour = SetMin(SampledHours) /\ InitFrom(MonthlyScenario)

Busy == {p \in HandlerIds : handlers[p].pc # "idle"}

\* a 'paid' callback reaches worker p
Arrive(p) ==
    /\ handlers[p].pc = "idle"
    /\ next_tx + Cardinality(Busy) < MaxTx
    /\ \E user \in Users : \E id \in BillIds(user) :
          handlers' = [handlers EXCEPT ![p] = HandlerCall("paid", user, id)]
    /\ UNCHANGED <<day, hour, store, next_tx, user_identities, tick, ticked, crashes,
                   dispatches, startDay, faults, pending_actions, messages, tick2>>

HandlerYields(p, s) == HandlerWrites(s) /\ handlers' = [handlers EXCEPT ![p] = s.h]

\* worker p makes its next store call
HandlerStep(p) ==
    /\ handlers[p].pc # "idle"
    /\ HandlerYields(p, HStep(HSys(handlers[p], recurring_expenses, bill_instances,
                                   transactions, next_tx)))
    /\ UNCHANGED <<day, hour, bill_instance_reminders, user_identities, tick, ticked,
                   crashes, dispatches, startDay, faults, pending_actions, messages, tick2>>

Arrives == \E p \in HandlerIds : Arrive(p)
HandlerSteps == \E p \in HandlerIds : HandlerStep(p)

NextConc ==
    \/ TickStart
    \/ TickDeliver
    \/ AdvanceHour
    \/ Arrives
    \/ HandlerSteps

SpecConc == InitConc /\ [][NextConc]_vars

\* ============================================================== the claims

SameKey(a, b) ==
    /\ a.bill_instance_id = b.bill_instance_id
    /\ a.reminder_offset = b.reminder_offset
    /\ a.scheduled_for = b.scheduled_for

Sending == tick.pc \in {"follow_up_send", "reminder_send"}

\* the clock is past the reminder hour of day d
PastReminderHour(d) == day > d \/ (day = d /\ hour > DefaultReminderHour)

\* instance i is not paid before the step and paid after it
TurnsPaid(i) == bill_instances[i].status # "paid" /\ bill_instances'[i].status = "paid"

Parent(i) == recurring_expenses[bill_instances[i].recurring_id]

LedgerOf(i) == {k \in 1..Len(transactions) : transactions[k].bill = i}

\* C1: whatever ticks have run (twice in an hour, dying mid-run, run again), the
\* table holds at most one reminder per (bill_instance_id, reminder_offset,
\* scheduled_for); a second create_bill_reminder_if_missing for a key that is there
\* returns no id and leaves the table alone; and a prompt for a key goes out in at
\* most one tick: a tick that is about to send finds no earlier prompt for its key,
\* and every prompt carries the id of the one row of its key.
C1_ReminderKeyOnce ==
    /\ \A i, j \in SeqIds(bill_instance_reminders) :
          SameKey(bill_instance_reminders[i], bill_instance_reminders[j]) => i = j
    /\ \A i \in SeqIds(bill_instance_reminders) :
          create_bill_reminder_if_missing(bill_instance_reminders,
                                          bill_instance_reminders[i].bill_instance_id,
                                          bill_instance_reminders[i].reminder_offset,
                                          bill_instance_reminders[i].scheduled_for)
              = [rows |-> bill_instance_reminders, id |-> NoId]
    /\ Sending => \A d \in dispatches : ~SameKey(d, bill_instance_reminders[tick.reminder_id])
    /\ \A d \in dispatches :
          /\ d.reminder_id \in SeqIds(bill_instance_reminders)
          /\ SameKey(d, bill_instance_reminders[d.reminder_id])

\* a run died after it created the reminder of the first day and before it sent it;
\* the job then ran again in the same hour, to its end, and sent nothing
C1_Witness ==
    /\ tick.pc = "idle" /\ ticked
    /\ day = startDay /\ hour = DefaultReminderHour
    /\ \E i \in SeqIds(bill_instance_reminders) :
          /\ bill_instance_reminders[i].scheduled_for = day
          /\ bill_instance_reminders[i].status = "pending"
          /\ \A d \in dispatches : d.reminder_id # i

\* C2: after any sequence of materialization passes there is at most one bill
\* instance per (recurring_id, period_year, period_month), and materializing the
\* period of an existing instance again adds no row.
C2_InstancePerPeriod ==
    /\ \A i, j \in SeqIds(bill_instances) :
          (/\ bill_instances[i].recurring_id = bill_instances[j].recurring_id
           /\ bill_instances[i].period_year = bill_instances[j].period_year
           /\ bill_instances[i].period_month = bill_instances[j].period_month) => i = j
    /\ \A i \in SeqIds(bill_instances) :
          Len(upsert_bill_instance(bill_instances, bill_instances[i].recurring_id,
                                   bill_instances[i].period_year,
                                   bill_instances[i].period_month,
                                   bill_instances[i].due_date, bill_instances[i].amount,
                                   bill_instances[i].payment_link,
                                   bill_instances[i].reference_number).rows)
              = Len(bill_instances)

\* one instance was materialized by the ticks of two days: it has reminders of both
C2_Witness ==
    \E a, b \in SeqIds(bill_instance_reminders) :
        /\ bill_instance_reminders[a].bill_instance_id = bill_instance_reminders[b].bill_instance_id
        /\ bill_instance_reminders[a].scheduled_for # bill_instance_reminders[b].scheduled_for
        /\ bill_instance_reminders[a].reminder_offset # FollowUpOffset
        /\ bill_instance_reminders[b].reminder_offset # FollowUpOffset

\* the call of lines 341-349 for recurring expense r with next_due d
Materialize(r, d) ==
    upsert_bill_instance(bill_instances, r, YearOf(d), MonthOf(d), d,
                         recurring_expenses[r].amount, recurring_expenses[r].payment_link,
                         recurring_expenses[r].payment_reference)

\* what an upsert u that found row u.id may have done to the table
UpsertFrame(r, d, u) ==
    \A i \in SeqIds(bill_instances) :
        IF i = u.id
        THEN u.rows[i] = [bill_instances[i] EXCEPT
                              !.due_date = d,
                              !.amount = recurring_expenses[r].amount,
                              !.payment_link = recurring_expenses[r].payment_link,
                              !.reference_number = recurring_expenses[r].payment_reference]
        ELSE u.rows[i] = bill_instances[i]

\* C3: when upsert_bill_instance finds a row for the period, it overwrites due_date,
\* amount, payment_link and reference_number from the parent and leaves status,
\* paid_at, tx_id and follow_up_on (and every other row) as they were.
C3_UpsertFrame ==
    \A r \in SeqIds(recurring_expenses) :
        recurring_expenses[r].next_due # NoDate =>
            UpsertFrame(r, recurring_expenses[r].next_due,
                        Materialize(r, recurring_expenses[r].next_due))

\* a paid instance whose due date was overwritten after the payment: it is still
\* paid and still carries its tx_id, and the ledger entry shows the old due date
C3_Witness ==
    \E i \in SeqIds(bill_instances) :
        /\ bill_instances[i].status = "paid"
        /\ bill_instances[i].tx_id # NoId
        /\ \E k \in LedgerOf(i) : /\ transactions[k].txId = bill_instances[i].tx_id
                                  /\ transactions[k].date # bill_instances[i].due_date

\* the cycle of the end-to-end example: the instance of June 2025, due on the 5th
DueJune == MkDate(2025, 6, 5)

CycleInstances ==
    {i \in SeqIds(bill_instances) :
        bill_instances[i].period_year = 2025 /\ bill_instances[i].period_month = 6}

CycleDispatches == {d \in dispatches : d.bill_instance_id \in CycleInstances}

CycleReminders ==
    {i \in SeqIds(bill_instance_reminders) :
        bill_instance_reminders[i].bill_instance_id \in CycleInstances}

\* C4: a monthly expense with remind_offsets [3, 1, 0] due on D, the job run every
\* hour, a channel taking every prompt: once the reminder hour of D-3, of D-1 and of
\* D has gone, exactly one reminder of that offset has been created, dispatched that
\* day and marked sent; before it, none; and no prompt of the cycle goes out on
\* another day or twice.
C4_OnePromptPerOffsetDay ==
    /\ \A d \in CycleDispatches :
          /\ d.reminder_offset \in {3, 1, 0}
          /\ d.on = DueJune - d.reminder_offset
          /\ d.scheduled_for = d.on
          /\ d.accepted # {}
    /\ \A o \in {3, 1, 0} :
          /\ Cardinality({d \in CycleDispatches : d.reminder_offset = o})
                 = IF PastReminderHour(DueJune - o) THEN 1 ELSE 0
          /\ PastReminderHour(DueJune - o) =>
                 \E i \in CycleReminders :
                     /\ bill_instance_reminders[i].reminder_offset = o
                     /\ bill_instance_reminders[i].scheduled_for = DueJune - o
                     /\ bill_instance_reminders[i].status = "sent"
    /\ Cardinality(CycleReminders) = Cardinality(CycleDispatches) + (IF Sending THEN 1 ELSE 0)
    /\ Sending => \A d \in dispatches : ~SameKey(d, bill_instance_reminders[tick.reminder_id])

\* the day after the due date: the three prompts of the cycle have gone out
C4_Witness ==
    /\ day > DueJune
    /\ {d.on : d \in CycleDispatches} = {DueJune - 3, DueJune - 1, DueJune}

\* C5: 'paid' on an instance that is not paid yet sets it to paid with paid_at and
\* tx_id set and follow_up_on cleared; when the parent has auto_add_transaction it
\* appends one ledger transaction with the instance's amount, dated on the instance's
\* due date; and for the monthly expense billed on the 5th, with the instance due
\* 2025-06-05, the parent's next_due becomes 2025-07-05.
C5_PaidRecords ==
    [][\A i \in SeqIds(bill_instances) :
          TurnsPaid(i) =>
              /\ bill_instances'[i] = [bill_instances[i] EXCEPT
                                           !.status = "paid", !.paid_at = day,
                                           !.tx_id = next_tx', !.follow_up_on = NoDate]
              /\ bill_instances'[i].tx_id # NoId
              /\ Parent(i).auto_add_transaction =>
                     transactions' = Append(transactions,
                                            [txId |-> bill_instances'[i].tx_id,
                                             userId |-> Parent(i).user_id,
                                             amount |-> bill_instances[i].amount,
                                             date |-> bill_instances[i].due_date,
                                             bill |-> i])
              /\ (/\ Parent(i).recurrence = "monthly"
                  /\ Parent(i).billing_day = 5
                  /\ bill_instances[i].due_date = DueJune) =>
                     recurring_expenses'[bill_instances[i].recurring_id].next_due
                         = MkDate(2025, 7, 5)]_vars

\* the instance due 2025-06-05 is paid: 50000 in the ledger, dated 2025-06-05, and
\* the parent due again on 2025-07-05
C5_Witness ==
    \E i \in SeqIds(bill_instances) :
        /\ bill_instances[i].status = "paid"
        /\ bill_instances[i].due_date = DueJune
        /\ bill_instances[i].follow_up_on = NoDate
        /\ Parent(i).next_due = MkDate(2025, 7, 5)
        /\ \E k \in LedgerOf(i) : /\ transactions[k].amount = 50000
                                  /\ transactions[k].date = DueJune
                                  /\ transactions[k].txId = bill_instances[i].tx_id

\* C6: after 'paid' on an instance due on D, the parent's recomputed next_due is
\* strictly later than D, whatever the recurrence.
C6_NextDueAfterDueDate ==
    [][\A i \in SeqIds(bill_instances) :
          TurnsPaid(i) =>
              recurring_expenses'[bill_instances[i].recurring_id].next_due
                  > bill_instances[i].due_date]_vars

\* the tables after one more 'paid' of the user on instance i, from the tables of s
PaidAgain(s, user, i) == RunHandler(HSys(HandlerCall("paid", user, i), s.r, s.b, s.l, s.n))

SameTables(s, t) == s.r = t.r /\ s.b = t.b /\ s.l = t.l /\ s.n = t.n

Tables == [r |-> recurring_expenses, b |-> bill_instances, l |-> transactions, n |-> next_tx]

\* C7: 'paid' on an instance that is paid appends nothing to the ledger and changes
\* neither the instance nor the parent; 'paid' twice in a row leaves what 'paid'
\* once leaves.
C7_PaidIsIdempotent ==
    \A user \in Users : \A i \in SeqIds(bill_instances) :
        /\ bill_instances[i].status = "paid" =>
               SameTables(_handle_recurring_action("paid", user, i), Tables)
        /\ SameTables(PaidAgain(_handle_recurring_action("paid", user, i), user, i),
                      _handle_recurring_action("paid", user, i))

\* a paid instance with its ledger entry, the user still holding the button
C7_Witness ==
    \E i \in SeqIds(bill_instances) :
        /\ bill_instances[i].status = "paid"
        /\ LedgerOf(i) # {}
        /\ i \in Prompted(Parent(i).user_id)

\* C8: two 'paid' calls for the same pending instance, their store calls
\* interleaved, leave at most one ledger transaction for the instance, which ends
\* paid with the tx_id of that transaction.
C8_OneTransactionPerInstance ==
    \A i \in SeqIds(bill_instances) :
        /\ Cardinality(LedgerOf(i)) <= 1
        /\ (Busy = {} /\ bill_instances[i].status = "paid" /\ LedgerOf(i) # {}) =>
               \A k \in LedgerOf(i) : transactions[k].txId = bill_instances[i].tx_id

\* C9: the ledger changes only in a step in which 'paid' turns an instance paid
\* whose parent has auto_add_transaction, and then by that one transaction; 'later',
\* 'no', the ticks, and 'paid' with the flag off leave the ledger as it is.
C9_LedgerOnlyOnPaid ==
    [][/\ transactions' # transactions =>
             \E i \in SeqIds(bill_instances) :
                 /\ TurnsPaid(i)
                 /\ Parent(i).auto_add_transaction
                 /\ Len(transactions') = Len(transactions) + 1
                 /\ SubSeq(transactions', 1, Len(transactions)) = transactions
                 /\ transactions'[Len(transactions')].bill = i
       /\ \A i \in SeqIds(bill_instances) :
             (TurnsPaid(i) /\ ~Parent(i).auto_add_transaction) =>
                 transactions' = transactions]_vars

\* 'paid' with the flag off has acted: the instance is paid, the ledger is empty
C9_Witness ==
    \E i \in SeqIds(bill_instances) :
        /\ bill_instances[i].status = "paid"
        /\ ~Parent(i).auto_add_transaction
        /\ transactions = <<>>

\* C10: 'later' on day T sets follow_up_on to T + 1, and during day T + 1, the job
\* run every hour and a channel taking the prompt, the follow-up prompt (offset -1)
\* of that instance goes out: once the reminder hour of follow_up_on has gone, the
\* prompt scheduled for that day has been dispatched on it.
C10_FollowUpNextDay ==
    \A i \in SeqIds(bill_instances) :
        bill_instances[i].follow_up_on # NoDate =>
            /\ bill_instances[i].follow_up_on <= day + 1
            /\ PastReminderHour(bill_instances[i].follow_up_on) =>
                   \E d \in dispatches :
                       /\ d.bill_instance_id = i
                       /\ d.reminder_offset = FollowUpOffset
                       /\ d.scheduled_for = bill_instances[i].follow_up_on
                       /\ d.on = bill_instances[i].follow_up_on

Actions == {"paid", "later", "no"}

\* C11: on an instance that is paid, each of the actions paid, later and no leaves
\* the instance resolved: its status stays paid and its paid_at, tx_id and
\* follow_up_on stay as they are.
C11_ResolvedStaysResolved ==
    \A user \in Users : \A i \in SeqIds(bill_instances) : \A action \in Actions :
        bill_instances[i].status = "paid" =>
            /\ _handle_recurring_action(action, user, i).b[i].status = "paid"
            /\ _handle_recurring_action(action, user, i).b[i].paid_at = bill_instances[i].paid_at
            /\ _handle_recurring_action(action, user, i).b[i].tx_id = bill_instances[i].tx_id
            /\ _handle_recurring_action(action, user, i).b[i].follow_up_on
                   = bill_instances[i].follow_up_on

\* C12: 'no' of the owner on a pending instance leaves it pending with follow_up_on
\* empty, also when a 'later' came before; and the sweep of a tick on a day after
\* its due date marks it overdue.
C12_NoLeavesNoFollowUp ==
    \A i \in SeqIds(bill_instances) :
        bill_instances[i].status = "pending" =>
            /\ _handle_recurring_action("no", Parent(i).user_id, i).b[i].status = "pending"
            /\ _handle_recurring_action("no", Parent(i).user_id, i).b[i].follow_up_on = NoDate
            /\ bill_instances[i].due_date < day =>
                   mark_overdue_bill_instances(
                       _handle_recurring_action("no", Parent(i).user_id, i).b, day)[i].status
                       = "overdue"

\* the days a sweep may be run with, around the current day
SweepDays == (day - 1)..(day + 2)

Swept(today) == mark_overdue_bill_instances(bill_instances, today)

C14_SentOnlyIfAccepted ==
    \A i \in SeqIds(bill_instance_reminders) :
        bill_instance_reminders[i].status = "sent" =>
            \E d \in dispatches : d.reminder_id = i /\ d.accepted # {}

\* C15: a reminder row whose delivery failed on every channel stays pending in
\* every later state, and no tick dispatches its (instance, offset, date) again.
C15_FailedIsNotRetried ==
    \A d \in dispatches :
        d.accepted = {} =>
            /\ bill_instance_reminders[d.reminder_id].status = "pending"
            /\ \A e \in dispatches : SameKey(d, e) => e = d

\* the run of the current hour has returned
TickDone == ticked /\ tick.pc = "idle"

\* the store calls made for expense id do not raise
Sound(id) == \A f \in faults : f[1] # id

\* expense id is due for processing in the run of this hour
DueNow(id) ==
    /\ recurring_expenses[id].status = "active"
    /\ _hour_for_timezone(recurring_expenses[id].tz)
           = _parse_reminder_hour(recurring_expenses[id].reminder_hour, DefaultReminderHour)

\* the instances of expense id for the period of its next_due
InstancesOf(id) ==
    {i \in SeqIds(bill_instances) :
        /\ bill_instances[i].recurring_id = id
        /\ bill_instances[i].due_date = recurring_expenses[id].next_due}

\* the offsets of expense id whose reminder date is today
OffsetsToday(id) ==
    {o \in 0..3 : /\ SeqContains(OffsetsWithZero(recurring_expenses[id]), o)
                  /\ recurring_expenses[id].next_due - o = day}

\* C16: when a store call made for one active expense raises during a tick, every
\* other active expense due in that tick has, when the tick returns, its instance
\* materialized and, for each of its offsets that falls today, its reminder created
\* and handed to the Notifier.
C16_FailureIsIsolated ==
    (TickDone /\ faults # {}) =>
        \A id \in SeqIds(recurring_expenses) :
            (Sound(id) /\ DueNow(id)) =>
                /\ InstancesOf(id) # {}
                /\ \A o \in OffsetsToday(id) :
                      \E d \in dispatches :
                          /\ d.bill_instance_id \in InstancesOf(id)
                          /\ d.reminder_offset = o
                          /\ d.scheduled_for = day

\* the first expense of the run raised and has no reminder; the second one, processed
\* after it, was reminded in the same run
C16_Witness ==
    /\ TickDone
    /\ ~Sound(1)
    /\ Sound(2)
    /\ \A i \in SeqIds(bill_instance_reminders) :
          bill_instances[bill_instance_reminders[i].bill_instance_id].recurring_id # 1
    /\ \E d \in dispatches :
          /\ bill_instances[d.bill_instance_id].recurring_id = 2
          /\ d.on = day

\* the data names no instance of the caller: not three parts, no integer in the
\* third, no instance with that id, or an instance of another user
Rejected(user, parts) ==
    \/ Len(parts) # 3
    \/ parts[3] \notin {"1", "2", "3", "-1", " 2 "}
    \/ Numerals[parts[3]] \notin SeqIds(bill_instances)
    \/ recurring_expenses[bill_instances[Numerals[parts[3]]].recurring_id].user_id # user

\* C17: a recurring action whose data has not three parts, whose id is no integer,
\* whose instance does not exist or belongs to another user changes no bill
\* instance, no recurring expense, no ledger entry and generates no tx id.
C17_RejectedChangesNothing ==
    \A user \in Users : \A parts \in DataSamples :
        Rejected(user, parts) => SameTables(handle_recurring_data(user, parts), Tables)

\* a pending instance of u1 whose buttons reached u1: the same data changes the
\* tables when u1 sends it and changes nothing when u2 sends it
C17_Witness ==
    /\ 1 \in Prompted("u1")
    /\ bill_instances[1].status = "pending"
    /\ ~SameTables(handle_recurring_data("u1", <<"recurring", "paid", "1">>), Tables)
    /\ SameTables(handle_recurring_data("u2", <<"recurring", "paid", "1">>), Tables)
    /\ SameTables(handle_recurring_data("u1", <<"recurring", "paid", "1x">>), Tables)

\* C18: canceled is terminal: once a recurring expense's status is canceled, no
\* later user command (activar or pausar, creating the same service again from
\* text, a setup step, an update) and no tick changes its status.
C18_CanceledIsTerminal ==
    [][\A id \in SeqIds(recurring_expenses) :
           recurring_expenses[id].status = "canceled"
               => recurring_expenses'[id].status = "canceled"]_vars

\* C19: in every reachable state, a recurring expense with status active has a
\* known billing schedule for its recurrence kind: billing_weekday is set for
\* weekly and biweekly, billing_day is set for monthly, quarterly and yearly.
C19_ActiveHasSchedule ==
    \A id \in SeqIds(recurring_expenses) :
        recurring_expenses[id].status = "active"
            => IF recurring_expenses[id].recurrence \in {"weekly", "biweekly"}
               THEN recurring_expenses[id].billing_weekday # NoWeekday
               ELSE recurring_expenses[id].billing_day # 0

\* the user has a recurring expense with this recurrence_id
Known(user, recurrence_id) ==
    \E i \in SeqIds(recurring_expenses) : /\ recurring_expenses[i].user_id = user
                                          /\ recurring_expenses[i].recurrence_id = recurrence_id

\* the row of the user with this recurrence_id has the given recurrence
RowHas(rows, user, recurrence_id, recurrence) ==
    \E i \in SeqIds(rows) : /\ rows[i].user_id = user
                            /\ rows[i].recurrence_id = recurrence_id
                            /\ rows[i].recurrence = recurrence

\* C20: after any sequence of recurring-payment detections and create-from-text
\* requests, there is at most one recurring expense per (user_id, recurrence_id);
\* requesting a known subscription from text updates its row (the recurrence
\* becomes the requested one) and adds none, and accepting the offer for a known
\* subscription continues with its row and adds none.
C20_OnePerSubscription ==
    /\ \A i, j \in SeqIds(recurring_expenses) :
           /\ recurring_expenses[i].user_id = recurring_expenses[j].user_id
           /\ recurring_expenses[i].recurrence_id = recurring_expenses[j].recurrence_id
           => i = j
    /\ \A user \in Users, text \in DOMAIN StartTexts :
           Known(user, RecurrenceIdOf[StartTexts[text].service_name])
               => /\ Len(_start_recurring_from_text(CNow, user, StartTexts[text].service_name,
                                                    StartTexts[text].recurrence,
                                                    StartTexts[text].billing_day,
                                                    StartTexts[text].billing_weekday,
                                                StartOffsets(StartTexts[text].asks, StartTexts[text].scan), day).r)
                         = Len(recurring_expenses)
                  /\ RowHas(_start_recurring_from_text(CNow, user, StartTexts[text].service_name,
                                                       StartTexts[text].recurrence,
                                                       StartTexts[text].billing_day,
                                                       StartTexts[text].billing_weekday,
                                                StartOffsets(StartTexts[text].asks, StartTexts[text].scan), day).r,
                            user, RecurrenceIdOf[StartTexts[text].service_name],
                            StartTexts[text].recurrence)
    /\ \A user \in Users, tx \in TxSamples :
           Known(user, tx.recurrenceId)
               => /\ Len(_create_recurring_from_tx(recurring_expenses, user, tx).rows)
                         = Len(recurring_expenses)
                  /\ _create_recurring_from_tx(recurring_expenses, user, tx).id
                         \in SeqIds(recurring_expenses)

\* the canceled Netflix of u1 was requested again from text, as a weekly service:
\* still one row, now weekly and pending
C20_Witness ==
    /\ Len(recurring_expenses) = 1
    /\ recurring_expenses[1].recurrence = "weekly"
    /\ recurring_expenses[1].status = "pending"
    /\ pending_actions["u1"].setup.recurring_id = 1

\* the months of a quarterly expense with the given base month
QuarterMonths(base) == {((base - 1 + 3 * i) % 12) + 1 : i \in 0..3}

\* the date falls on the billing day, clamped to the length of its month
OnBillingDay(d, billing_day) ==
    DayOf(d) = (IF billing_day < DaysInMonth(YearOf(d), MonthOf(d))
                THEN billing_day ELSE DaysInMonth(YearOf(d), MonthOf(d)))

\* C22: for recurrence quarterly and every today, billing_day and base month,
\* compute_next_due returns a date whose month is one of {base, base+3, base+6,
\* base+9} mod 12, that is on or after today, and that is the earliest such date.
C22_QuarterlyNextDue ==
    \A id \in SeqIds(recurring_expenses) :
        recurring_expenses[id].status = "active" /\ recurring_expenses[id].recurrence = "quarterly"
            => /\ MonthOf(recurring_expenses[id].next_due)
                      \in QuarterMonths(recurring_expenses[id].billing_month)
               /\ recurring_expenses[id].next_due >= day
               /\ ~\E e \in day..(recurring_expenses[id].next_due - 1) :
                      /\ MonthOf(e) \in QuarterMonths(recurring_expenses[id].billing_month)
                      /\ OnBillingDay(e, recurring_expenses[id].billing_day)

\* C23: for recurrence biweekly and every anchor_date, today and billing_weekday,
\* the number of days between compute_next_due's result and anchor_date is a
\* multiple of 14 (without an anchor_date the function counts from today).
C23_BiweeklyFromAnchor ==
    \A id \in SeqIds(recurring_expenses) :
        recurring_expenses[id].status = "active" /\ recurring_expenses[id].recurrence = "biweekly"
            => (recurring_expenses[id].next_due
                    - (IF recurring_expenses[id].anchor_date = NoDate
                       THEN day ELSE recurring_expenses[id].anchor_date)) % 14 = 0

\* an activated biweekly expense whose billing weekday is not its anchor's, due
\* more than a week from today: the weekly candidate was moved
C23_Witness ==
    \E id \in SeqIds(recurring_expenses) :
        /\ recurring_expenses[id].status = "active"
        /\ recurring_expenses[id].recurrence = "biweekly"
        /\ recurring_expenses[id].anchor_date # NoDate
        /\ recurring_expenses[id].billing_weekday # NoWeekday
        /\ recurring_expenses[id].billing_weekday # Weekday(recurring_expenses[id].anchor_date)
        /\ recurring_expenses[id].next_due > day + 7

\* C24: for recurrence monthly, compute_next_due returns the earliest date on or
\* after today whose day of month equals min(billing_day, number of days of that
\* month).
C24_MonthlyNextDue ==
    \A id \in SeqIds(recurring_expenses) :
        recurring_expenses[id].status = "active" /\ recurring_expenses[id].recurrence = "monthly"
            => /\ recurring_expenses[id].next_due >= day
               /\ OnBillingDay(recurring_expenses[id].next_due, recurring_expenses[id].billing_day)
               /\ ~\E e \in day..(recurring_expenses[id].next_due - 1) :
                      OnBillingDay(e, recurring_expenses[id].billing_day)

\* billing_day 31 activated on 2024-02-15 is due on 2024-02-29
C24_Witness ==
    /\ day = MkDate(2024, 2, 15)
    /\ \E id \in SeqIds(recurring_expenses) :
           /\ recurring_expenses[id].status = "active"
           /\ recurring_expenses[id].recurrence = "monthly"
           /\ recurring_expenses[id].billing_day = 31
           /\ recurring_expenses[id].next_due = MkDate(2024, 2, 29)

\* C25: every recurring expense's stored remind_offsets is a descending list of
\* distinct non-negative integers that contains 0, after creation and after every
\* edit of its reminders.
C25_OffsetsWellFormed ==
    \A id \in SeqIds(recurring_expenses) :
        /\ \A k \in 1..Len(json_ints(recurring_expenses[id].remind_offsets)) :
               json_ints(recurring_expenses[id].remind_offsets)[k] >= 0
        /\ \A k \in 1..(Len(json_ints(recurring_expenses[id].remind_offsets)) - 1) :
               json_ints(recurring_expenses[id].remind_offsets)[k] > json_ints(recurring_expenses[id].remind_offsets)[k + 1]
        /\ \E k \in 1..Len(json_ints(recurring_expenses[id].remind_offsets)) :
               json_ints(recurring_expenses[id].remind_offsets)[k] = 0

\* ------------------------------ expenses on a clock and an hour of their own
\* A tick every hour and a user who asks to be reminded later, for an expense whose
\* reminder hour is 19 and for one whose clock is 14 hours ahead of the settings'.

EveningScenario ==
    [recurring_expenses |->
         <<Expense("u1", "monthly", 5, NoWeekday, 0, NoDate, 0, 19, <<1, 0>>,
                   MkDate(2025, 6, 5), FALSE, 50000)>>,
     start |-> MkDate(2025, 6, 3), user_identities |-> OneChannel]

AheadScenario ==
    [recurring_expenses |->
         <<Expense("u1", "monthly", 5, NoWeekday, 0, NoDate, 14, 9, <<1, 0>>,
                   MkDate(2025, 6, 5), FALSE, 50000)>>,
     start |-> MkDate(2025, 6, 3), user_identities |-> OneChannel]

InitZones == hour = 0 /\ \E sc \in {EveningScenario, AheadScenario} : InitFrom(sc)

NextZones ==
    \/ HourlyTick
    \/ HourlyDeliver
    \/ Later

SpecZones == InitZones /\ [][NextZones]_vars

\* C26: every date and hour decision of a tick is the expense's own: an instance is
\* swept to overdue only when its due date is before today on its parent's clock,
\* a follow-up is selected on the day that is its follow_up_on on its parent's
\* clock, and the follow-up prompt goes out when the parent's local hour is the
\* parent's own reminder_hour.
C26_PerExpenseClock ==
    /\ \A i \in SeqIds(bill_instances) :
           bill_instances[i].status = "overdue" =>
               bill_instances[i].due_date < _today_for_timezone(Parent(i).tz)
    /\ tick.pc = "follow_up_send" =>
           /\ bill_instances[Head(tick.follow_ups).id].follow_up_on =
                  _today_for_timezone(Parent(Head(tick.follow_ups).id).tz)
           /\ _hour_for_timezone(Parent(Head(tick.follow_ups).id).tz) =
                  _parse_reminder_hour(Parent(Head(tick.follow_ups).id).reminder_hour,
                                       DefaultReminderHour)

\* ------------------------------------ a tick every hour, channels that may fail
\* The user of the monthly subscription has both channels; each send of a prompt
\* may fail.

FollowUpScenario ==
    [MonthlyScenario EXCEPT !.recurring_expenses[1].remind_offsets = json_list(<<1>>),
                            !.user_identities = TwoChannels]

InitFollowUp == hour = 0 /\ InitFrom(FollowUpScenario)

\* the Notifier answers: any of the user's channels took the prompt, or none
HourlyAttempt ==
    /\ tick.pc \in {"follow_up_send", "reminder_send"}
    /\ \E accepted \in SUBSET user_identities[PromptUser] :
          /\ HourlyAfter(Run(TickAfterSend(accepted), RunFuel))
          /\ dispatches' = dispatches \cup {Dispatch(user_identities[PromptUser], accepted)}
    /\ UNCHANGED <<transactions, next_tx, user_identities, handlers, ticked, crashes,
                   startDay, faults, pending_actions, messages, tick2>>

NextFollowUp ==
    \/ HourlyTick
    \/ HourlyAttempt
    \/ Later

SpecFollowUp == InitFollowUp /\ [][NextFollowUp]_vars

\* C27: when the Notifier has answered for a follow-up prompt, an answer in which
\* at least one channel accepted the prompt leaves the instance's follow_up_on
\* cleared and the (instance, -1, today) reminder row sent; an answer in which
\* every channel failed leaves follow_up_on as it was and the row pending.
C27_FollowUpOutcome ==
    [][tick.pc = "follow_up_send" =>
           \A d \in dispatches' \ dispatches :
               IF d.accepted # {}
               THEN /\ bill_instances'[d.bill_instance_id].follow_up_on = NoDate
                    /\ bill_instance_reminders'[d.reminder_id].status = "sent"
               ELSE /\ bill_instances'[d.bill_instance_id].follow_up_on =
                           bill_instances[d.bill_instance_id].follow_up_on
                    /\ bill_instances'[d.bill_instance_id].follow_up_on # NoDate
                    /\ bill_instance_reminders'[d.reminder_id].status = "pending"]_vars

\* ------------------------------------- store calls of the tick's phases that raise
\* The monthly subscription on the eve of its due date, and a store whose sweep
\* or whose list queries raise for a while.

PhaseFaultPoints == {<<NoId, call>> : call \in {"mark_overdue", "list_follow_ups", "list_active"}}

\* before the job of the hour runs, some of the store calls of lines 249, 250 and
\* 316 start to raise
PhaseFails ==
    /\ tick.pc = "idle"
    /\ ~ticked
    /\ faults = {}
    /\ \E f \in SUBSET PhaseFaultPoints : f # {} /\ faults' = f
    /\ UNCHANGED <<day, hour, store, next_tx, user_identities, tick, handlers, ticked,
                   crashes, dispatches, startDay, pending_actions, messages, tick2>>

InitOutage == hour = SetMin(SampledHours) /\ InitFrom(MonthlyScenario)

NextOutage ==
    \/ TickStart
    \/ TickDeliver
    \/ AdvanceHour
    \/ PhaseFails
    \/ StoreHeals

SpecOutage == InitOutage /\ [][NextOutage]_vars

\* the reminder dates of an expense that are today on the expense's clock
DueOffsets(row) ==
    {k \in 1..Len(OffsetsWithZero(row)) :
         row.next_due # NoDate
         /\ ReminderDate(row.next_due, OffsetsWithZero(row)[k]) = _today_for_timezone(row.tz)}

\* C28: an exception of a store call made during a tick never leaves
\* process_recurring_reminders, and never keeps the phases after it from running:
\* when the tick of an expense's reminder hour has returned, every active expense
\* with a reminder date today has the reminder row of that date.
C28_FailuresAreCaught ==
    /\ ~tick.raised
    /\ (ticked /\ tick.pc = "idle") =>
           \A id \in SeqIds(recurring_expenses) :
               LET row == recurring_expenses[id]
               IN (row.status = "active"
                   /\ _hour_for_timezone(row.tz) =
                          _parse_reminder_hour(row.reminder_hour, DefaultReminderHour))
                  => \A k \in DueOffsets(row) :
                         \E r \in SeqIds(bill_instance_reminders) :
                             /\ bill_instance_reminders[r].reminder_offset = OffsetsWithZero(row)[k]
                             /\ bill_instance_reminders[r].scheduled_for = _today_for_timezone(row.tz)
                             /\ Parent(bill_instance_reminders[r].bill_instance_id) = row

HasReminder(i, offset, date) ==
    \E r \in SeqIds(bill_instance_reminders) :
        /\ bill_instance_reminders[r].bill_instance_id = i
        /\ bill_instance_reminders[r].reminder_offset = offset
        /\ bill_instance_reminders[r].scheduled_for = date

\* C29: within one tick the sweep runs before the follow-ups and the follow-ups
\* before the reminders: a follow-up prompt is never sent for an instance whose due
\* date is before the tick's today (the sweep has made it overdue before the
\* follow-ups were listed), and when the tick sends a regular reminder its list of
\* follow-ups is used up and, in the follow-up hour, every pending instance with
\* follow_up_on today and an active parent has its follow-up row.
C29_PhaseOrder ==
    /\ tick.pc = "follow_up_send" =>
           bill_instances[Head(tick.follow_ups).id].due_date >= tick.today
    /\ tick.pc = "reminder_send" =>
           /\ tick.follow_ups = <<>>
           /\ hour = DefaultReminderHour =>
                  \A i \in SeqIds(bill_instances) :
                      (/\ bill_instances[i].status = "pending"
                       /\ bill_instances[i].follow_up_on = tick.today
                       /\ Parent(i).status = "active")
                      => HasReminder(i, FollowUpOffset, tick.today)

\* the tick of the follow-up day has returned: its sweep made the instance overdue,
\* and its follow-up phase, which came after, sent no follow-up for it
C29_Witness ==
    /\ tick.pc = "idle"
    /\ hour = DefaultReminderHour + 1
    /\ \E i \in SeqIds(bill_instances) :
           /\ bill_instances[i].status = "overdue"
           /\ bill_instances[i].follow_up_on = day
           /\ ~HasReminder(i, FollowUpOffset, day)

\* --------------------------------------- pausar and activar while a tick is under way
\* Two users with an expense each, due 2025-06-05; the second expense is active,
\* still being set up, or canceled. The toggle command is handled whenever no
\* callback is under way: before a tick, after it, or while the tick waits for
\* the Notifier.

StatusScenarios ==
    {[FaultyScenario EXCEPT !.recurring_expenses[2].status = status] :
         status \in {"active", "pending", "canceled"}}

InitStatus == hour = SetMin(SampledHours) /\ \E sc \in StatusScenarios : InitFrom(sc)

\* route recurring_toggle (pipeline.py 549-550), the handler of lines 1578-1613
ToggleAnytime ==
    \E user \in Users, action \in {"pausar", "activar"}, recurring_id \in SeqIds(recurring_expenses) :
        /\ HandlersIdle
        /\ messages < MaxMessages
        /\ messages' = messages + 1
        /\ recurring_expenses' = _handle_recurring_toggle(CNow, user, action, recurring_id, day).r
        /\ UNCHANGED <<day, hour, bill_instances, bill_instance_reminders, transactions,
                       next_tx, user_identities, tick, handlers, ticked, crashes,
                       dispatches, startDay, faults, pending_actions, tick2>>

NextStatus ==
    \/ TickStart
    \/ TickDeliver
    \/ AdvanceHour
    \/ ToggleAnytime

SpecStatus == InitStatus /\ [][NextStatus]_vars

\* the expense of reminder row r of the table after the step, as it is before the step
ParentOfNew(r) == recurring_expenses[bill_instances'[bill_instance_reminders'[r].bill_instance_id].recurring_id]

\* C30: no step creates a reminder row, and no step brings the tick to the sending of
\* a prompt, for an expense whose status is not active (pending, paused or canceled);
\* a regular reminder row is created only in the expense's own reminder hour.
C30_OnlyActiveExpenses ==
    [][/\ \A r \in (Len(bill_instance_reminders) + 1)..Len(bill_instance_reminders') :
              /\ ParentOfNew(r).status = "active"
              /\ bill_instance_reminders'[r].reminder_offset # FollowUpOffset =>
                     _hour_for_timezone(ParentOfNew(r).tz) =
                         _parse_reminder_hour(ParentOfNew(r).reminder_hour, DefaultReminderHour)
       /\ (tick'.pc \in {"follow_up_send", "reminder_send"}
           /\ tick'.reminder_id \notin SeqIds(bill_instance_reminders))
          => ParentOfNew(tick'.reminder_id).status = "active"]_vars

\* --------------------------- two ticks under way at once, their store calls interleaved
\* Two processes run the job of the same hour (each process that starts the
\* application starts a scheduler of its own), or one run overlaps the next. Each
\* store call is one statement; the calls of the two runs interleave.

Ticks == {1, 2}

TickOf(w) == IF w = 1 THEN tick ELSE tick2

\* run w has run in this hour and has returned
Returned == [IdleTick EXCEPT !.pc = "done"]

TickTo(w, t) ==
    IF w = 1 THEN tick' = t /\ UNCHANGED tick2
    ELSE tick2' = (IF t.pc = "idle" THEN Returned ELSE t) /\ UNCHANGED tick

\* the monthly subscription with one reminder, a day before the due date
TwoTicksScenario == [MonthlyScenario EXCEPT !.recurring_expenses[1].remind_offsets = json_list(<<1>>)]

InitTwoTicks == hour = SetMin(SampledHours) /\ InitFrom(TwoTicksScenario)

\* the job of the hour starts in process w
TwoBegin(w) ==
    /\ TickOf(w).pc = "idle"
    /\ w = 1 => ~ticked
    /\ ticked' = (ticked \/ w = 1)
    /\ TickTo(w, [IdleTick EXCEPT !.pc = "sweep", !.today = day])
    /\ UNCHANGED <<day, hour, store, next_tx, user_identities, handlers, crashes,
                   dispatches, startDay, faults, pending_actions, messages>>

\* run w makes its next store call
TwoStep(w) ==
    /\ TickOf(w).pc \notin {"idle", "done", "follow_up_send", "reminder_send"}
    /\ TickWrites(Step(TickSys(TickOf(w))))
    /\ TickTo(w, Step(TickSys(TickOf(w))).t)
    /\ UNCHANGED <<day, hour, transactions, next_tx, user_identities, handlers, ticked,
                   crashes, dispatches, startDay, faults, pending_actions, messages>>

PromptUserOf(t) ==
    IF t.pc = "follow_up_send" THEN Head(t.follow_ups).user_id
    ELSE Head(t.recurring_expenses).row.user_id

DispatchOf(t, attempted, accepted) ==
    LET row == bill_instance_reminders[t.reminder_id]
    IN [bill_instance_id |-> row.bill_instance_id, reminder_offset |-> row.reminder_offset,
        scheduled_for |-> row.scheduled_for, reminder_id |-> t.reminder_id,
        on |-> day, attempted |-> attempted, accepted |-> accepted]

\* the Notifier answers run w
TwoDeliver(w) ==
    /\ TickOf(w).pc \in {"follow_up_send", "reminder_send"}
    /\ \E accepted \in SUBSET user_identities[PromptUserOf(TickOf(w))] :
          /\ TickTo(w, [TickOf(w) EXCEPT
                            !.delivered = Delivered(user_identities[PromptUserOf(TickOf(w))], accepted),
                            !.pc = IF @ = "follow_up_send" THEN "follow_up_clear"
                                   ELSE "reminder_sent"])
          /\ dispatches' = dispatches \cup
                 {DispatchOf(TickOf(w), user_identities[PromptUserOf(TickOf(w))], accepted)}
    /\ UNCHANGED <<day, hour, store, next_tx, user_identities, handlers, ticked,
                   crashes, startDay, faults, pending_actions, messages>>

\* the hour is over when both runs have returned
TwoAdvance ==
    /\ tick.pc = "idle"
    /\ tick2.pc \in {"idle", "done"}
    /\ Advances < MaxAdvances
    /\ hour' = NextSampledHour(hour)
    /\ day' = IF NextSampledHour(hour) > hour THEN day ELSE day + 1
    /\ ticked' = FALSE
    /\ tick2' = IdleTick
    /\ UNCHANGED <<store, next_tx, user_identities, tick, handlers, crashes,
                   dispatches, startDay, faults, pending_actions, messages>>

TwoBegins == \E w \in Ticks : TwoBegin(w)
TwoSteps == \E w \in Ticks : TwoStep(w)
TwoDelivers == \E w \in Ticks : TwoDeliver(w)

NextTwoTicks ==
    \/ TwoBegins
    \/ TwoSteps
    \/ TwoDelivers
    \/ TwoAdvance
    \/ Later

SpecTwoTicks == InitTwoTicks /\ [][NextTwoTicks]_vars

\* the key of the reminder row run w is sending a prompt for
SendingKey(w) ==
    LET row == bill_instance_reminders[TickOf(w).reminder_id]
    IN <<row.bill_instance_id, row.reminder_offset, row.scheduled_for>>

SendingIn(w) == TickOf(w).pc \in {"follow_up_send", "reminder_send"}

\* C21: with the store calls of two ticks interleaved, bill_instances holds at most
\* one row per (recurring_id, period_year, period_month), bill_instance_reminders
\* at most one row per (bill_instance_id, reminder_offset, scheduled_for), and a
\* reminder is dispatched by at most one of the two ticks: the two are never
\* sending for the same key, and a tick that is sending finds no earlier prompt
\* for its key.
C21_TwoTicksNoDuplicates ==
    /\ \A i, j \in SeqIds(bill_instances) :
           (/\ bill_instances[i].recurring_id = bill_instances[j].recurring_id
            /\ bill_instances[i].period_year = bill_instances[j].period_year
            /\ bill_instances[i].period_month = bill_instances[j].period_month) => i = j
    /\ \A i, j \in SeqIds(bill_instance_reminders) :
           (/\ bill_instance_reminders[i].bill_instance_id = bill_instance_reminders[j].bill_instance_id
            /\ bill_instance_reminders[i].reminder_offset = bill_instance_reminders[j].reminder_offset
            /\ bill_instance_reminders[i].scheduled_for = bill_instance_reminders[j].scheduled_for)
           => i = j
    /\ (SendingIn(1) /\ SendingIn(2)) => SendingKey(1) # SendingKey(2)
    /\ \A w \in Ticks :
           SendingIn(w) =>
               \A d \in dispatches :
                   <<d.bill_instance_id, d.reminder_offset, d.scheduled_for>> # SendingKey(w)

\* in one hour the first tick is sending a prompt while the second, which ran in
\* the same hour, has returned without sending any: it found the row there
C21_Witness ==
    /\ SendingIn(1)
    /\ tick.today = day
    /\ tick2.pc = "done"
    /\ \A d \in dispatches : d.on # day \/ d.scheduled_for # day

\* ------------------------------------------- what the column remind_offsets may hold
\* The monthly subscription due 2025-06-05, on the eve of the due date, with a
\* remind_offsets value as the application writes it or as another writer of the
\* table left it: a list without 0, an offset twice, items that are no numbers,
\* a text, a JSON object, null.

StoredSamples ==
    {json_list(<<1, 1>>), json_list(<<3, 1, 0>>), json_list(<<1>>),
     JList(<<JStr("x"), JNull, JInt(1)>>), JList(<<JStr("x"), JNull>>),
     JText("abc"), JText("[\"2\", -1, 3]"), JText("{\"days\": 3}"), JDict, JNone}

StoredScenario(value) == [MonthlyScenario EXCEPT !.recurring_expenses[1].remind_offsets = value]

InitStored == hour = SetMin(SampledHours) /\ \E value \in StoredSamples : InitFrom(StoredScenario(value))

NextStored ==
    \/ TickStart
    \/ TickDeliver
    \/ AdvanceHour

SpecStored == InitStored /\ [][NextStored]_vars

\* the tick of the expense's reminder hour has processed the expense and returned
ProcessedNow(row) ==
    /\ ticked
    /\ tick.pc = "idle"
    /\ row.status = "active"
    /\ _hour_for_timezone(row.tz) = _parse_reminder_hour(row.reminder_hour, DefaultReminderHour)

\* the reminder rows of offset and date that belong to an instance of expense id
RemindersOf(id, offset, date) ==
    {r \in SeqIds(bill_instance_reminders) :
         /\ bill_instance_reminders[r].reminder_offset = offset
         /\ bill_instance_reminders[r].scheduled_for = date
         /\ bill_instances[bill_instance_reminders[r].bill_instance_id].recurring_id = id}

SeqSet(s) == {s[k] : k \in 1..Len(s)}

\* C31: the offsets the scheduler uses are the stored ones and 0; when the tick of
\* the reminder hour has processed an active expense on its due date there is one
\* reminder row with offset 0 for today, whether or not the stored list has a 0;
\* and no offset, listed once or twice, has more than one row for a date.
C31_OffsetsWithSameDay ==
    \A id \in SeqIds(recurring_expenses) :
        LET row == recurring_expenses[id]
        IN /\ SeqSet(OffsetsWithZero(row)) = SeqSet(_extract_offsets(row)) \cup {0}
           /\ (ProcessedNow(row) /\ row.next_due = _today_for_timezone(row.tz))
                  => Cardinality(RemindersOf(id, 0, row.next_due)) = 1
           /\ \A offset \in SeqSet(OffsetsWithZero(row)) : \A d \in startDay..day :
                  Cardinality(RemindersOf(id, offset, d)) <= 1

\* the due date of the expense whose stored list is [1, 1]: the tick has left one
\* row for offset 1 the day before and one row for offset 0 today
C31_Witness ==
    /\ recurring_expenses[1].remind_offsets = json_list(<<1, 1>>)
    /\ ProcessedNow(recurring_expenses[1])
    /\ recurring_expenses[1].next_due = day
    /\ Cardinality(RemindersOf(1, 1, day - 1)) = 1
    /\ Cardinality(RemindersOf(1, 0, day)) = 1

\* a stored value the scheduler cannot read as a list of numbers: an object, a text
\* that is no JSON list, a list with an item int() rejects
Unparsable(value) ==
    \/ value.kind = "dict"
    \/ value.kind = "str" /\ value.text \notin DOMAIN json_loads
    \/ value.kind = "str" /\ value.text \in DOMAIN json_loads /\ json_loads[value.text].kind # "list"
    \/ value.kind = "list" /\ \E k \in 1..Len(value.items) : ~IntOk(value.items[k])

\* C32: when the tick of the reminder hour has processed an active expense whose
\* stored remind_offsets cannot be parsed, the tick has not failed for the expense
\* (the instance of its due date is there) and the offsets in use were 3, 1 and 0:
\* each of the three whose reminder date is today has its reminder row.
C32_UnparsableFallsBack ==
    \A id \in SeqIds(recurring_expenses) :
        LET row == recurring_expenses[id]
        IN (Unparsable(row.remind_offsets) /\ ProcessedNow(row)) =>
               /\ \E i \in SeqIds(bill_instances) :
                      bill_instances[i].recurring_id = id /\ bill_instances[i].due_date = row.next_due
               /\ \A offset \in {3, 1, 0} :
                      ReminderDate(row.next_due, offset) = _today_for_timezone(row.tz)
                          => RemindersOf(id, offset, _today_for_timezone(row.tz)) # {}

\* C33: whatever paid, later and no actions and ticks have happened, the ledger
\* holds at most one transaction for any one bill instance.
C33_OneLedgerRowPerInstance ==
    \A i \in SeqIds(bill_instances) : Cardinality(LedgerOf(i)) <= 1

\* ----------------------------------------------- a weekly expense, paid week by week
\* Due on Wednesdays with a reminder three days before and one on the day; the
\* job runs every hour from the due date 2025-06-04 on, and the user answers.

WeeklyPaidScenario ==
    [recurring_expenses |->
         <<Expense("u1", "weekly", 0, 2, 0, NoDate, 0, 9, <<3>>,
                   MkDate(2025, 6, 4), TRUE, 39900)>>,
     start |-> MkDate(2025, 6, 4), user_identities |-> OneChannel]

InitWeekly == hour = 0 /\ InitFrom(WeeklyPaidScenario)

NextWeekly ==
    \/ HourlyTick
    \/ HourlyDeliver
    \/ Paid
    \/ Later

SpecWeekly == InitWeekly /\ [][NextWeekly]_vars

\* the step brings the tick to the sending of a prompt for a reminder row it made
NewPrompt ==
    /\ tick'.pc \in {"follow_up_send", "reminder_send"}
    /\ tick'.reminder_id \notin SeqIds(bill_instance_reminders)

\* the instance of the prompt of a NewPrompt step, after the step
PromptedInstance == bill_instances'[bill_instance_reminders'[tick'.reminder_id].bill_instance_id]

\* C34: no step brings the tick to the sending of a prompt, regular reminder or
\* follow-up, for a bill instance whose status is paid.
C34_NoPromptForPaid ==
    [][NewPrompt => PromptedInstance.status # "paid"]_vars

\* the instance of the prompt belongs to a weekly or biweekly expense
WeeklyPrompt == recurring_expenses'[PromptedInstance.recurring_id].recurrence \in {"weekly", "biweekly"}

\* a payment of the prompted instance's expense is in the ledger before the step
PaidBefore ==
    \E k \in 1..Len(transactions) :
        bill_instances[transactions[k].bill].recurring_id = PromptedInstance.recurring_id

\* C35: for a weekly or biweekly expense with a confirmed payment, each regular
\* reminder the tick sets out to send carries an instance due on the expense's next due date that is
\* pending, so that 'paid' on it is accepted, also after the instance of an
\* earlier due date in the same month was confirmed paid.
C35_NextWeekIsPending ==
    [][(NewPrompt /\ tick'.pc = "reminder_send" /\ WeeklyPrompt /\ PaidBefore)
           => /\ PromptedInstance.status = "pending"
              /\ PromptedInstance.due_date = recurring_expenses'[PromptedInstance.recurring_id].next_due]_vars

\* C36: for recurrence biweekly with an explicit billing_weekday, the date
\* compute_next_due returns falls on billing_weekday, for every anchor_date and
\* today, an anchor_date on another weekday included.
C36_BiweeklyOnWeekday ==
    \A id \in SeqIds(recurring_expenses) :
        (/\ recurring_expenses[id].status = "active"
         /\ recurring_expenses[id].recurrence = "biweekly"
         /\ recurring_expenses[id].billing_weekday # NoWeekday)
            => Weekday(recurring_expenses[id].next_due) = recurring_expenses[id].billing_weekday

\* C37: a bill instance with status overdue has a due date earlier than today;
\* no materialization pass moves the due date of an overdue instance to today or
\* to a later date.
C37_OverdueIsPast ==
    \A i \in SeqIds(bill_instances) :
        bill_instances[i].status = "overdue" => bill_instances[i].due_date < day

\* ------------------------------------- the scheduler on every kind of recurrence
\* An active expense that has no next_due yet, of each recurrence kind, on days
\* before, on and after its billing day.

KindDays == {MkDate(2024, 10, 14), MkDate(2024, 10, 15), MkDate(2024, 10, 16)}

KindScenario(recurrence, today, billing_day, billing_weekday, billing_month) ==
    [DueScenario(recurrence, today, billing_day, billing_weekday, billing_month, NoDate)
        EXCEPT !.recurring_expenses[1].status = "active"]

KindScenarios ==
    {KindScenario(recurrence, today, 0, billing_weekday, 0) :
         recurrence \in {"weekly", "biweekly"}, today \in KindDays, billing_weekday \in {NoWeekday, 2}}
    \cup {KindScenario("monthly", today, 15, NoWeekday, 0) : today \in KindDays}
    \cup {KindScenario(recurrence, today, 15, NoWeekday, billing_month) :
              recurrence \in {"quarterly", "yearly"}, today \in KindDays, billing_month \in {1, 10, 11}}

InitKinds == hour = SetMin(SampledHours) /\ \E sc \in KindScenarios : InitFrom(sc)

NextKinds ==
    \/ TickStart
    \/ TickDeliver
    \/ AdvanceHour

SpecKinds == InitKinds /\ [][NextKinds]_vars

\* the instances of expense id for the month of date
InstancesInMonth(id, date) ==
    {i \in SeqIds(bill_instances) : /\ bill_instances[i].recurring_id = id
                                    /\ bill_instances[i].period_year = YearOf(date)
                                    /\ bill_instances[i].period_month = MonthOf(date)}

\* C38: once the tick of an active expense's reminder hour has processed it, the
\* expense's stored next_due and the due date of the instance materialized for it
\* are not earlier than the expense's local today, whatever the recurrence kind.
C38_NextDueNotInPast ==
    \A id \in SeqIds(recurring_expenses) :
        ProcessedNow(recurring_expenses[id])
            => /\ recurring_expenses[id].next_due # NoDate
               /\ recurring_expenses[id].next_due >= _today_for_timezone(recurring_expenses[id].tz)
               /\ InstancesInMonth(id, recurring_expenses[id].next_due) # {}
               /\ \A i \in InstancesInMonth(id, recurring_expenses[id].next_due) :
                      bill_instances[i].due_date >= _today_for_timezone(recurring_expenses[id].tz)

\* ----------------------------------------------- a 'paid' callback cut short
\* One worker handles the callbacks one after the other. The store calls of a
\* 'paid' are transactions of their own (lines 1803 and 1804-1807): the process
\* may die, or update_bill_instance may raise, once the ledger row is committed.

InitInterrupted == hour = SetMin(SampledHours) /\ InitFrom(MonthlyScenario)

\* a 'paid' callback arrives while no other is being handled
ArriveAlone == HandlersIdle /\ Arrive(1)

\* the handling ends between append_transaction and update_bill_instance
HandlerDies ==
    /\ handlers[1].pc = "update_bill"
    /\ handlers[1].bill_instance_id \in {transactions[k].bill : k \in 1..Len(transactions)}
    /\ crashes < MaxCrashes
    /\ crashes' = crashes + 1
    /\ handlers' = [handlers EXCEPT ![1] = IdleHandler]
    /\ UNCHANGED <<day, hour, store, next_tx, user_identities, tick, ticked,
                   dispatches, startDay, faults, pending_actions, messages, tick2>>

NextInterrupted ==
    \/ TickStart
    \/ TickDeliver
    \/ AdvanceHour
    \/ ArriveAlone
    \/ HandlerStep(1)
    \/ HandlerDies

SpecInterrupted == InitInterrupted /\ [][NextInterrupted]_vars

\* the ledger rows of instance i after the step
LedgerAfter(i) == {k \in 1..Len(transactions') : transactions'[k].bill = i}

\* C39: when the ledger holds the transaction of an instance that was not marked
\* paid, because the 'paid' that appended it was cut short, no step of a repeated
\* 'paid' records another transaction for that instance.
C39_RetryRecordsNoSecond ==
    [][\A i \in SeqIds(bill_instances) :
           (crashes > 0 /\ LedgerOf(i) # {} /\ bill_instances[i].status # "paid")
               => LedgerAfter(i) = LedgerOf(i)]_vars

====
